---- MODULE Spec2Model ----
(***************************************************************************)
(* The segmented write ahead log (src/wal.go) and the block index writer   *)
(* and reader (src/index.go) of the TSDB.  Files are sequences of bytes;   *)
(* the encodings are the ones of the source, byte for byte.                *)
(***************************************************************************)
EXTENDS Integers, Sequences, FiniteSets, TLC

(***************************************************************************)
(* Byte codec: encoding/binary and hash/crc32 as the source uses them.     *)
(***************************************************************************)

RECURSIVE Xor(_, _)
\* bitwise exclusive or of two naturals
Xor(a, b) ==
  IF a = 0 THEN b
  ELSE IF b = 0 THEN a
  ELSE (((a % 2) + (b % 2)) % 2) + 2 * Xor(a \div 2, b \div 2)

\* Xor on 4-bit values, tabulated once
xorTable ==
  SubSeq([a \in 1..16 |-> SubSeq([b \in 1..16 |-> Xor(a - 1, b - 1)], 1, 16)], 1, 16)

\* Xor on bytes
XorByte(a, b) ==
  (16 * xorTable[(a \div 16) + 1][(b \div 16) + 1]) + xorTable[(a % 16) + 1][(b % 16) + 1]

RECURSIVE crcShift(_, _)
\* k rounds of the reflected CRC division by the Castagnoli polynomial 0x82F63B78,
\* on a 32-bit word kept as <<high 16 bits, low 16 bits>>
crcShift(w, k) ==
  IF k = 0 THEN w
  ELSE LET sh == << w[1] \div 2, (w[2] \div 2) + ((w[1] % 2) * 32768) >>
       IN  crcShift(IF w[2] % 2 = 1
                      THEN << Xor(sh[1], 33526), Xor(sh[2], 15224) >>
                      ELSE sh, k - 1)

\* crc32.MakeTable(crc32.Castagnoli): entry i + 1 is the word for byte i, as 4 bytes
castagnoliTable ==
  SubSeq([i \in 1..256 |->
            LET w == crcShift(<<0, i - 1>>, 8)
            IN  << w[1] \div 256, w[1] % 256, w[2] \div 256, w[2] % 256 >>], 1, 256)

\* one round of the table-driven update: the running word w (4 bytes, big-endian)
\* and the next byte c
crcByte(w, c) ==
  LET t == castagnoliTable[XorByte(w[4], c) + 1]
  IN  << t[1], XorByte(t[2], w[1]), XorByte(t[3], w[2]), XorByte(t[4], w[3]) >>

RECURSIVE crcUpdate(_, _, _, _)
\* crc32 update of the running word w with the bytes b[lo..hi], left to right; the
\* range is halved so that the evaluation stays shallow on long inputs
crcUpdate(w, b, lo, hi) ==
  IF lo > hi THEN w
  ELSE IF lo = hi THEN crcByte(w, b[lo])
  ELSE LET mid == (lo + hi) \div 2
           w1  == crcUpdate(w, b, lo, mid)
       IN  IF w1 = w THEN crcUpdate(w, b, mid + 1, hi) ELSE crcUpdate(w1, b, mid + 1, hi)

\* hash.Sum(nil) after Reset and Write(b): the four big-endian checksum bytes
crc32Sum(b) ==
  LET w == crcUpdate(<<255, 255, 255, 255>>, b, 1, Len(b))
  IN  << 255 - w[1], 255 - w[2], 255 - w[3], 255 - w[4] >>

\* binary.BigEndian.PutUint32
BE32(x) == << (x \div 16777216) % 256, (x \div 65536) % 256, (x \div 256) % 256, x % 256 >>

\* binary.BigEndian.PutUint64 of a value below 2^31, or of uint64(x) for a negative int64 x
BE64(x) ==
  IF x >= 0 THEN <<0, 0, 0, 0>> \o BE32(x)
  ELSE LET m == BE32(-x - 1) IN <<255, 255, 255, 255>> \o [i \in 1..4 |-> 255 - m[i]]

\* binary.BigEndian.Uint32 of b[1..4] (values below 2^31)
Uint32At(b, o) == ((b[o + 1] * 256 + b[o + 2]) * 256 + b[o + 3]) * 256 + b[o + 4]

\* int64(binary.BigEndian.Uint64(b[o+1..o+8]))
Int64At(b, o) ==
  IF b[o + 1] >= 128
    THEN -(((((255 - b[o + 5]) * 256 + (255 - b[o + 6])) * 256 + (255 - b[o + 7])) * 256 + (255 - b[o + 8])) + 1)
    ELSE Uint32At(b, o + 4)

RECURSIVE PutUvarint(_)
\* binary.PutUvarint
PutUvarint(x) ==
  IF x < 128 THEN <<x>> ELSE <<(x % 128) + 128>> \o PutUvarint(x \div 128)

\* binary.PutVarint: zig-zag, then PutUvarint
PutVarint(x) == PutUvarint(IF x < 0 THEN 2 * (-x) - 1 ELSE 2 * x)

RECURSIVE UvarintFrom(_, _, _, _)
\* binary.Uvarint(b[o+1..]): <<value, n>>; n = 0 when the buffer is too small
UvarintFrom(b, o, s, acc) ==
  IF o + 1 > Len(b) THEN <<0, 0>>
  ELSE IF b[o + 1] < 128 THEN << acc + b[o + 1] * s, 1 >>
  ELSE LET r == UvarintFrom(b, o + 1, s * 128, acc + (b[o + 1] - 128) * s)
       IN  IF r[2] = 0 THEN r ELSE << r[1], r[2] + 1 >>

Uvarint(b, o) == UvarintFrom(b, o, 1, 0)

\* binary.Varint(b[o+1..])
Varint(b, o) ==
  LET r == Uvarint(b, o)
  IN  << IF r[1] % 2 = 1 THEN -((r[1] + 1) \div 2) ELSE r[1] \div 2, r[2] >>


(***************************************************************************)
(* WAL entry encoding (src/wal.go).  A label string is a sequence of       *)
(* bytes; a float value is carried as its 64-bit pattern.                  *)
(***************************************************************************)

WALEntrySeries == 2
WALEntrySamples == 3
WALEntryDeletes == 4
walSeriesSimple == 1
walSamplesSimple == 1
walDeletesSimple == 1

\* the 8 bytes every segment starts with: WALMagic 0x43AF00EF, WALFormatDefault, padding
metab == <<67, 175, 0, 239, 1, 0, 0, 0>>

Zeros(n) == [i \in 1..n |-> 0]

RECURSIVE encodeLabels(_, _)
encodeLabels(lset, i) ==
  IF i > Len(lset) THEN <<>>
  ELSE PutUvarint(Len(lset[i].Name)) \o lset[i].Name
       \o PutUvarint(Len(lset[i].Value)) \o lset[i].Value
       \o encodeLabels(lset, i + 1)

RECURSIVE encodeSeriesRecs(_, _)
encodeSeriesRecs(series, i) ==
  IF i > Len(series) THEN <<>>
  ELSE BE64(series[i].Ref) \o PutUvarint(Len(series[i].Labels))
       \o encodeLabels(series[i].Labels, 1) \o encodeSeriesRecs(series, i + 1)

\* encodeSeries(buf, series): the base ref, then every series with its absolute ref
encodeSeries(series) == BE64(series[1].Ref) \o encodeSeriesRecs(series, 1)

RECURSIVE encodeSampleRecs(_, _)
encodeSampleRecs(samples, i) ==
  IF i > Len(samples) THEN <<>>
  ELSE PutVarint(samples[i].Ref - samples[1].Ref) \o PutVarint(samples[i].T - samples[1].T)
       \o BE64(samples[i].V) \o encodeSampleRecs(samples, i + 1)

\* the payload built by SegmentWAL.encodeSamples
samplesPayload(samples) ==
  BE64(samples[1].Ref) \o BE64(samples[1].T) \o encodeSampleRecs(samples, 1)

RECURSIVE samplesMaxt(_, _, _)
\* w.maxt as encodeSamples leaves it: reset to 0, then raised to every larger T
samplesMaxt(samples, i, m) ==
  IF i > Len(samples) THEN m
  ELSE samplesMaxt(samples, i + 1, IF m < samples[i].T THEN samples[i].T ELSE m)

RECURSIVE encodeIntervals(_, _, _)
encodeIntervals(ref, itvs, i) ==
  IF i > Len(itvs) THEN <<>>
  ELSE PutUvarint(ref) \o PutVarint(itvs[i].Mint) \o PutVarint(itvs[i].Maxt)
       \o encodeIntervals(ref, itvs, i + 1)

RECURSIVE deletesPayload(_, _)
\* the payload built by SegmentWAL.encodeDeletes: one triple per interval
deletesPayload(stones, i) ==
  IF i > Len(stones) THEN <<>>
  ELSE encodeIntervals(stones[i].ref, stones[i].intervals, 1) \o deletesPayload(stones, i + 1)

\* the bytes SegmentWAL.entry hands to the buffered writer for one entry
frame(et, flag, buf) ==
  LET hdr == <<et, flag>> \o BE32(Len(buf))
  IN  hdr \o buf \o crc32Sum(hdr \o buf)

(***************************************************************************)
(* Files.  inodes[i] is the content of file i, dir maps a segment name to  *)
(* its file, and a handle (an *os.File inside a segmentFile) is            *)
(* [name, ino, closed, pos, maxt].  A writer state s is                    *)
(* [dir, inodes, files, cur, curN, maxt, err]; err = "nil" is no error.    *)
(***************************************************************************)

\* the model's w.segmentSize (walSegmentSizeBytes scaled down)
segmentSize == 64

\* the content of a file after writing b at offset pos
WriteAt(c, pos, b) ==
  (IF pos > Len(c) THEN c \o Zeros(pos - Len(c)) ELSE SubSeq(c, 1, pos))
  \o b \o SubSeq(c, pos + Len(b) + 1, Len(c))

\* f.Write(b) on handle i of s.files
fileWrite(s, i, b) ==
  IF s.files[i].closed THEN [s EXCEPT !.err = "closed"]
  ELSE [s EXCEPT !.inodes[s.files[i].ino] = WriteAt(@, s.files[i].pos, b),
                 !.files[i].pos = @ + Len(b)]

\* bufio.Writer.Flush after its Write: the buffer is empty unless the write failed
flushed(r) == IF r.err # "nil" THEN r ELSE [r EXCEPT !.cur = << <<>> >>]

\* SegmentWAL.flush: the buffered bytes go to the tail at its file position
flush(s) ==
  IF s.cur = <<>> \/ s.cur = << <<>> >> THEN s
  ELSE flushed(fileWrite(s, Len(s.files), s.cur[1]))

\* the disk once the content of file ino is durable
durable(s, ino) ==
  [s EXCEPT !.synced = [i \in DOMAIN s.synced \cup {ino} |->
                          IF i = ino THEN s.inodes[ino] ELSE s.synced[i]]]

\* fileutil.Fdatasync(w.tail()) unless the flush failed: fails on a nil or closed file
Fdatasync(s) ==
  IF s.err # "nil" THEN s
  ELSE IF Len(s.files) = 0 \/ s.files[Len(s.files)].closed
    THEN [s EXCEPT !.err = "bad file descriptor"]
    ELSE durable(s, s.files[Len(s.files)].ino)

\* SegmentWAL.sync and SegmentWAL.Sync: flush, then fdatasync of the tail
sync(s) == Fdatasync(flush(s))

\* nextSequenceFile: the next unused numeric name
nextSequenceFile(d) ==
  IF DOMAIN d = {} THEN 0
  ELSE (CHOOSE n \in DOMAIN d : \A m \in DOMAIN d : m <= n) + 1

\* a cut that would close the old tail without truncating it at its position
closeTailUntruncated(r) ==
  IF r.err # "nil" THEN r
  ELSE [r EXCEPT !.files[Len(r.files)].closed = TRUE]

\* SegmentWAL.cut after its sync: the old tail is truncated at its position and closed
closeTail(r) ==
  IF r.err # "nil" THEN r
  ELSE [r EXCEPT !.inodes[r.files[Len(r.files)].ino] = SubSeq(@, 1, r.files[Len(r.files)].pos),
                 !.files[Len(r.files)].closed = TRUE]

\* SegmentWAL.cut from nextSequenceFile on: the new preallocated segment and its header
createSegment(s1) ==
  IF s1.err # "nil" THEN s1
  ELSE LET p == nextSequenceFile(s1.dir)
       IN  [s1 EXCEPT
             !.dir    = [m \in DOMAIN s1.dir \cup {p} |->
                          IF m \in DOMAIN s1.dir THEN s1.dir[m] ELSE Len(s1.inodes) + 1],
             !.inodes = Append(s1.inodes, WriteAt(Zeros(segmentSize), 0, metab)),
             !.files  = Append(s1.files, [name |-> p, ino |-> Len(s1.inodes) + 1,
                                          closed |-> FALSE, pos |-> 8, maxt |-> 0]),
             !.cur    = << <<>> >>,
             !.curN   = 8]

\* a cut that would close the old tail without flushing the buffered entries to it
cutUnsynced(s) == createSegment(IF Len(s.files) = 0 THEN s ELSE closeTail(s))

\* SegmentWAL.cut
cut(s) == createSegment(IF Len(s.files) = 0 THEN s ELSE closeTail(sync(s)))

\* SegmentWAL.entry once the segment to write to is there
entryWrite(s1, et, flag, buf) ==
  IF s1.err # "nil" THEN s1
  ELSE [s1 EXCEPT !.cur   = << s1.cur[1] \o frame(et, flag, buf) >>,
                  !.curN  = @ + 6 + 4 + Len(buf),
                  !.files = IF Len(s1.files) > 0 /\ s1.files[Len(s1.files)].maxt < s1.maxt
                              THEN [s1.files EXCEPT ![Len(s1.files)].maxt = s1.maxt]
                              ELSE s1.files]

\* an entry that would never cut because the segment size is crossed
entryNeverCrossing(s, et, flag, buf) ==
  entryWrite(IF s.cur = <<>> \/ s.curN > segmentSize THEN cut(s) ELSE s, et, flag, buf)

\* an entry that would cut whenever the segment size is crossed, whatever its own size
entryAlwaysCrossing(s, et, flag, buf) ==
  entryWrite(IF \/ s.cur = <<>>
                \/ s.curN > segmentSize
                \/ s.curN + 6 + 4 + Len(buf) > segmentSize
               THEN cut(s) ELSE s,
             et, flag, buf)

\* SegmentWAL.entry
entry(s, et, flag, buf) ==
  entryWrite(IF \/ s.cur = <<>>
                \/ s.curN > segmentSize
                \/ (s.curN + 6 + 4 + Len(buf) > segmentSize /\ 6 + 4 + Len(buf) <= segmentSize)
               THEN cut(s) ELSE s,
             et, flag, buf)

\* SegmentWAL.encodeSeries
encodeSeriesW(s, series) ==
  IF Len(series) = 0 THEN s
  ELSE entry(s, WALEntrySeries, walSeriesSimple, encodeSeries(series))

\* SegmentWAL.encodeSamples
encodeSamples(s, samples) ==
  IF Len(samples) = 0 THEN s
  ELSE entry([s EXCEPT !.maxt = samplesMaxt(samples, 1, 0)],
             WALEntrySamples, walSamplesSimple, samplesPayload(samples))

\* SegmentWAL.encodeDeletes
encodeDeletes(s, stones) ==
  entry(s, WALEntryDeletes, walDeletesSimple, deletesPayload(stones, 1))

\* a tail of the Log* calls that would flush the buffer without an fdatasync of the segment
logFlush(s, interval) ==
  IF s.err # "nil" THEN s
  ELSE IF interval <= 0 THEN flush(s) ELSE s

\* the tail of LogSeries, LogSamples and LogDeletes
logSync(s, interval) ==
  IF s.err # "nil" THEN s
  ELSE IF interval <= 0 THEN sync(s) ELSE s

(***************************************************************************)
(* Replay (walReader).                                                     *)
(***************************************************************************)

Min(a, b) == IF a < b THEN a ELSE b

\* walReader.entry on a file of content c read from offset pos: kind is "ok", "eof"
\* (io.EOF: nothing left to read, or an entry type of 0) or "corrupt"
\* (walCorruptionErr); pos is the file position the reads leave behind.
walReaderEntry(c, pos) ==
  LET hn  == Min(6, Len(c) - pos)
      hdr == SubSeq(c, pos + 1, pos + 6)
      p1  == pos + 6
      len == Uint32At(hdr, 2)
      bn  == Min(len, Len(c) - p1)
      buf == SubSeq(c, p1 + 1, p1 + len)
      p2  == p1 + len
      cn  == Min(4, Len(c) - p2)
      bad == [et |-> 0, flag |-> 0, buf |-> <<>>]
  IN  IF hn <= 0 THEN [kind |-> "eof", pos |-> pos] @@ bad
      ELSE IF hn # 6 THEN [kind |-> "corrupt", pos |-> pos + hn] @@ bad
      ELSE IF hdr[1] = 0 THEN [kind |-> "eof", pos |-> p1] @@ bad
      ELSE IF hdr[1] \notin {WALEntrySeries, WALEntrySamples, WALEntryDeletes}
        THEN [kind |-> "corrupt", pos |-> p1] @@ bad
      ELSE IF len > 0 /\ bn <= 0 THEN [kind |-> "eof", pos |-> p1] @@ bad
      ELSE IF bn # len THEN [kind |-> "corrupt", pos |-> p1 + bn] @@ bad
      ELSE IF cn <= 0 THEN [kind |-> "eof", pos |-> p2] @@ bad
      ELSE IF cn # 4 THEN [kind |-> "corrupt", pos |-> p2 + cn] @@ bad
      ELSE IF SubSeq(c, p2 + 1, p2 + 4) # crc32Sum(hdr \o buf)
        THEN [kind |-> "corrupt", pos |-> p2 + 4] @@ bad
      ELSE [kind |-> "ok", pos |-> p2 + 4, et |-> hdr[1], flag |-> hdr[2], buf |-> buf]

RECURSIVE decodeLabels(_, _, _, _)
\* the label loop of decodeSeries: l labels from offset o; <<ok, labels, offset>>
decodeLabels(b, o, l, acc) ==
  IF l = 0 THEN <<TRUE, acc, o>>
  ELSE LET nl == Uvarint(b, o)
           o1 == o + nl[2] + nl[1]
           vl == Uvarint(b, o1)
           o2 == o1 + vl[2] + vl[1]
       IN  IF nl[2] < 1 \/ Len(b) - o < nl[2] + nl[1] THEN <<FALSE, acc, o>>
           ELSE IF vl[2] < 1 \/ Len(b) - o1 < vl[2] + vl[1] THEN <<FALSE, acc, o>>
           ELSE decodeLabels(b, o2, l - 1,
                  Append(acc, [Name  |-> SubSeq(b, o + nl[2] + 1, o1),
                               Value |-> SubSeq(b, o1 + vl[2] + 1, o2)]))

RECURSIVE decodeSeriesRecs(_, _, _)
decodeSeriesRecs(b, o, acc) ==
  IF o >= Len(b) THEN [err |-> "nil", recs |-> acc]
  ELSE IF Len(b) - o < 8 THEN [err |-> "invalid size", recs |-> <<>>]
  ELSE LET l == Uvarint(b, o + 8)
           r == decodeLabels(b, o + 8 + l[2], l[1], <<>>)
       IN  IF l[2] < 1 \/ ~r[1] THEN [err |-> "invalid size", recs |-> <<>>]
           ELSE decodeSeriesRecs(b, r[3],
                  Append(acc, [Ref |-> Uint32At(b, o + 4), Labels |-> r[2]]))

\* walReader.decodeSeries: the base ref is skipped, every record carries its ref
decodeSeries(b) ==
  IF Len(b) < 8 THEN [err |-> "invalid size", recs |-> <<>>]
  ELSE decodeSeriesRecs(b, 8, <<>>)

RECURSIVE decodeSampleRecs(_, _, _, _, _)
decodeSampleRecs(b, o, baseRef, baseTime, acc) ==
  IF o >= Len(b) THEN [err |-> "nil", recs |-> acc]
  ELSE LET dref  == Varint(b, o)
           dtime == Varint(b, o + dref[2])
           o2    == o + dref[2] + dtime[2]
       IN  IF dref[2] < 1 \/ dtime[2] < 1 \/ Len(b) - o2 < 8
             THEN [err |-> "invalid size", recs |-> <<>>]
             ELSE decodeSampleRecs(b, o2 + 8, baseRef, baseTime,
                    Append(acc, [Ref |-> baseRef + dref[1], T |-> baseTime + dtime[1],
                                 V |-> Int64At(b, o2)]))

\* walReader.decodeSamples
decodeSamples(b) ==
  IF Len(b) < 16 THEN [err |-> "invalid size", recs |-> <<>>]
  ELSE decodeSampleRecs(b, 16, Int64At(b, 0), Int64At(b, 8), <<>>)

RECURSIVE decodeDeleteRecs(_, _, _)
decodeDeleteRecs(b, o, acc) ==
  IF o >= Len(b) THEN [err |-> "nil", recs |-> acc]
  ELSE LET ref  == Uvarint(b, o)
           mint == Varint(b, o + ref[2])
           maxt == Varint(b, o + ref[2] + mint[2])
       IN  IF ref[2] < 1 \/ mint[2] < 1 \/ maxt[2] < 1
             THEN [err |-> "invalid size", recs |-> <<>>]
             ELSE decodeDeleteRecs(b, o + ref[2] + mint[2] + maxt[2],
                    Append(acc, [ref |-> ref[1],
                                 intervals |-> << [Mint |-> mint[1], Maxt |-> maxt[1]] >>]))

\* walReader.decodeDeletes: one Stone per encoded interval
decodeDeletes(b) == decodeDeleteRecs(b, 0, <<>>)

RECURSIVE closeAndRemove(_, _)
\* the loop of walReader.truncate over the files after the current one
closeAndRemove(r, k) ==
  IF k > Len(r.idx) THEN r
  ELSE IF r.files[r.idx[k]].closed THEN [r EXCEPT !.err = "closed"]
  ELSE IF r.files[r.idx[k]].name \notin DOMAIN r.dir
    THEN [r EXCEPT !.files[r.idx[k]].closed = TRUE, !.err = "no such file"]
  ELSE closeAndRemove(
         [r EXCEPT !.files[r.idx[k]].closed = TRUE,
                   !.dir = [m \in DOMAIN r.dir \ {r.files[r.idx[k]].name} |-> r.dir[m]]],
         k + 1)

\* a truncate that would cut r.wal.files and leave the current file where the read ended
truncatedUnsought(r1, lastOffset) ==
  IF r1.err # "nil" THEN r1
  ELSE [r1 EXCEPT !.idx = SubSeq(r1.idx, 1, r1.cur)]

\* walReader.truncate after its loop: r.wal.files is cut and the current file repositioned
truncated(r1, lastOffset) ==
  IF r1.err # "nil" THEN r1
  ELSE [r1 EXCEPT !.idx = SubSeq(r1.idx, 1, r1.cur),
                  !.files[r1.idx[r1.cur]].pos = lastOffset]

\* walReader.truncate: r.idx is the reader's r.wal.files, as indices into the handles
truncate(r, lastOffset) ==
  truncated(closeAndRemove([r EXCEPT !.err = "nil"], r.cur + 1), lastOffset)

RECURSIVE next(_)
\* walReader.next once entry() returned e for the current file
nextEntry(r, e) ==
  LET i  == r.idx[r.cur]
      cf == r.files[i]
  IN  IF e.kind = "eof"
        THEN IF r.cur = Len(r.idx) THEN [r EXCEPT !.files[i].pos = e.pos, !.ok = FALSE]
             ELSE next([r EXCEPT !.files[i].pos = e.pos, !.files[i].closed = TRUE,
                                 !.cur = @ + 1])
      ELSE IF e.kind = "corrupt"
        THEN [truncate([r EXCEPT !.files[i].pos = e.pos, !.err = "corrupt"], cf.pos)
                EXCEPT !.ok = FALSE, !.corrupt = <<cf.name, cf.pos>>]
      ELSE [r EXCEPT !.files[i].pos = e.pos,
                     !.at = [et |-> e.et, flag |-> e.flag, buf |-> e.buf],
                     !.ok = (r.err = "nil")]

\* a next that would treat a failed read like a corrupt entry and truncate
nextTruncating(r) ==
  IF r.cur > Len(r.idx) THEN [r EXCEPT !.ok = FALSE]
  ELSE IF r.files[r.idx[r.cur]].closed
    THEN [truncate([r EXCEPT !.err = "closed"], r.files[r.idx[r.cur]].pos) EXCEPT !.ok = FALSE]
  ELSE nextEntry(r, walReaderEntry(r.inodes[r.files[r.idx[r.cur]].ino],
                                   r.files[r.idx[r.cur]].pos))

\* walReader.next: r.ok is its result, r.at the entry it decoded
next(r) ==
  IF r.cur > Len(r.idx) THEN [r EXCEPT !.ok = FALSE]
  ELSE IF r.files[r.idx[r.cur]].closed THEN [r EXCEPT !.err = "closed", !.ok = FALSE]
  ELSE nextEntry(r, walReaderEntry(r.inodes[r.files[r.idx[r.cur]].ino],
                                   r.files[r.idx[r.cur]].pos))

RECURSIVE validSamplesStrict(_, _, _)
\* a reader that would also leave out the samples with T = mint
validSamplesStrict(s, mint, i) ==
  IF i > Len(s) THEN <<>>
  ELSE (IF s[i].T <= mint THEN <<>> ELSE <<s[i]>>) \o validSamplesStrict(s, mint, i + 1)

RECURSIVE validSamples(_, _, _)
\* the samples Read keeps: those with T >= mint, in order
validSamples(s, mint, i) ==
  IF i > Len(s) THEN <<>>
  ELSE (IF s[i].T < mint THEN <<>> ELSE <<s[i]>>) \o validSamples(s, mint, i + 1)

\* the callback of Read for the decoded series or tombstones d
deliver(r1, et, d) ==
  IF d.err # "nil" THEN [r1 EXCEPT !.err = d.err, !.ok = FALSE]
  ELSE [r1 EXCEPT !.out = Append(@, [et |-> et, recs |-> d.recs])]

\* the samples callback of Read for the samples v it kept; cf.maxt follows them
deliverValid(r1, v) ==
  [r1 EXCEPT !.files[r1.idx[r1.cur]].maxt = samplesMaxt(v, 1, @),
             !.out = Append(@, [et |-> "samples", recs |-> v])]

\* the samples branch of Read
deliverSamples(r1, d) ==
  IF d.err # "nil" THEN [r1 EXCEPT !.err = d.err, !.ok = FALSE]
  ELSE deliverValid(r1, validSamples(d.recs, r1.mint, 1))

\* the body of the loop of Read
dispatch(r1) ==
  IF ~r1.ok THEN r1
  ELSE IF r1.at.et = WALEntrySeries THEN deliver(r1, "series", decodeSeries(r1.at.buf))
  ELSE IF r1.at.et = WALEntrySamples THEN deliverSamples(r1, decodeSamples(r1.at.buf))
  ELSE deliver(r1, "deletes", decodeDeletes(r1.at.buf))

RECURSIVE Read(_)
\* walReader.Read: every entry goes to its callback (r.out collects the calls)
Read(r) == IF r.ok THEN Read(dispatch(next(r))) ELSE r

\* newWALReader over the handles `files`, of which the reader's WAL holds those at idx
newWALReader(d, ino, files, idx, mint) ==
  [dir |-> d, inodes |-> ino, files |-> files, idx |-> idx, mint |-> mint, cur |-> 1,
   err |-> "nil", ok |-> TRUE, corrupt |-> <<>>, out |-> <<>>,
   at |-> [et |-> 0, flag |-> 0, buf |-> <<>>]]

(***************************************************************************)
(* The WAL as a state machine: one process that opens the directory,       *)
(* replays it, logs, and closes; the directory outlives it.                *)
(***************************************************************************)

VARIABLES
  dir,            \* the WAL directory: segment name -> file
  inodes,         \* the files' contents
  files,          \* w.files
  cur,            \* w.cur: <<>> is nil, <<b>> a buffered writer holding the bytes b
  curN,           \* w.curN
  maxt,           \* w.maxt
  flushInterval,  \* w.flushInterval
  phase,          \* "closed", "opened" (OpenSegmentWAL returned), "ready" (replay done)
  op,             \* the call that led to this state
  lastErr,        \* what that call returned
  mint,           \* the mint of the last Reader(mint)
  delivered,      \* the callbacks' arguments during the last Read, in call order
  found,          \* <<segment, lastOffset>> of the corruption the last Read logged, or <<>>
  dropped,        \* the handles the last Read took out of w.files
  logged,         \* history: the entries logged and not destroyed since, in order
  layout,         \* history: where each of them was written: [name, off, sz]
  calls,          \* history: the number of Log* calls so far
  damage,         \* history: what was done to the files from outside
  trunc,          \* history: the last Truncate: its arguments and what it was to keep
  synced,         \* the disk: the content of each file that its last fdatasync made durable
  iw,             \* the index writer
  ir,             \* the index reader
  iop,            \* the call on the index that led to this state
  ires,           \* what the last query of the index reader returned
  igiven,         \* history: the arguments of the WritePostings calls that returned nil
  mtx,            \* w.mtx: "free" or the call that holds it
  stopc,          \* w.stopc is closed
  donec,          \* w.donec is closed
  run,            \* the goroutine of w.run: where it is, and the tail its Sync took
  closer,         \* where the goroutine that calls Close is
  logger,         \* where the goroutine that calls Log* is
  trn,            \* the goroutine that calls Truncate: where it is, its arguments, delFiles
  rdr,            \* a reader next to the writer: where it is, r.cur, what it visited
  lgs             \* the goroutines that call Log* side by side, and w.crc32

walvars == << dir, inodes, files, cur, curN, maxt, flushInterval, phase, op, lastErr,
              mint, delivered, found, dropped, logged, layout, calls, damage, trunc, synced >>

ivars == << iw, ir, iop, ires, igiven >>

cvars == << mtx, stopc, donec, run, closer, logger, trn, rdr, lgs >>

vars == << walvars, ivars, cvars >>

\* the number of Log* calls a behaviour holds
MaxLog == 2

S(r) == [Ref |-> r, Labels |-> << [Name |-> <<97>>, Value |-> <<48 + r>>] >>]
Smp(r, t, v) == [Ref |-> r, T |-> t, V |-> v]

\* the batches handed to LogSeries (refs ascending and descending), LogSamples and LogDeletes
SeriesBatches == { << S(1) >>, << S(3), S(2) >>, << S(1), S(2), S(3), S(4), S(5) >> }
SampleBatches == { << Smp(3, 3, 1), Smp(1, 1, 2) >> }
StoneBatches  == { << [ref |-> 1, intervals |-> << [Mint |-> 0, Maxt |-> 3],
                                                  [Mint |-> 5, Maxt |-> 6] >>] >>,
                   <<>> }
Mints     == {0, 3}
Intervals == {0, 1}

W == [dir |-> dir, inodes |-> inodes, files |-> files, cur |-> cur, curN |-> curN,
      maxt |-> maxt, synced |-> synced, err |-> "nil"]

\* no Truncate so far
NoTruncate ==
  [done |-> FALSE, mint |-> 0, keep |-> << >>, cand |-> << >>, kept |-> << >>, kept1 |-> << >>,
   n |-> 0]

NoDamage == [kind |-> "none", name |-> 0, off |-> 0, healed |-> FALSE]

WALInit ==
  /\ dir = << >> /\ inodes = << >> /\ files = << >>
  /\ cur = << >> /\ curN = 0 /\ maxt = 0
  /\ flushInterval \in Intervals
  /\ phase = "closed" /\ op = "none" /\ lastErr = "nil" /\ mint = 0
  /\ delivered = << >> /\ found = << >> /\ dropped = << >>
  /\ logged = << >> /\ layout = << >> /\ calls = 0
  /\ damage = NoDamage
  /\ trunc = NoTruncate
  /\ synced = << >>

RECURSIVE sequenceFiles(_)
\* sequenceFiles: the segment names of the directory, ascending
sequenceFiles(names) ==
  IF names = {} THEN << >>
  ELSE LET n == CHOOSE n \in names : \A m \in names : n <= m
       IN  <<n>> \o sequenceFiles(names \ {n})

\* an initSegments that would check the magic number only
openSegmentsAnyFormat(d, ino, fns) ==
  [err   |-> IF \E i \in 1..Len(fns) : Len(ino[d[fns[i]]]) < 8 THEN "invalid header size"
             ELSE IF \E i \in 1..Len(fns) : SubSeq(ino[d[fns[i]]], 1, 4) # SubSeq(metab, 1, 4)
               THEN "invalid header" ELSE "nil",
   files |-> [i \in 1..Len(fns) |->
               [name |-> fns[i], ino |-> d[fns[i]], closed |-> FALSE, pos |-> 8, maxt |-> 0]]]

\* SegmentWAL.initSegments over the names fns: every segment opened, its 8 header bytes
\* consumed and checked
openSegments(d, ino, fns) ==
  [err   |-> IF \E i \in 1..Len(fns) : Len(ino[d[fns[i]]]) < 8 THEN "invalid header size"
             ELSE IF \E i \in 1..Len(fns) : SubSeq(ino[d[fns[i]]], 1, 5) # SubSeq(metab, 1, 5)
               THEN "invalid header" ELSE "nil",
   files |-> [i \in 1..Len(fns) |->
               [name |-> fns[i], ino |-> d[fns[i]], closed |-> FALSE, pos |-> 8, maxt |-> 0]]]

\* SegmentWAL.initSegments
initSegments(d, ino) == openSegments(d, ino, sequenceFiles(DOMAIN d))

\* OpenSegmentWAL once initSegments returned r
Opened(r) ==
  /\ lastErr' = r.err
  /\ IF r.err # "nil"
       THEN UNCHANGED << files, cur, curN, maxt, phase >>
       ELSE /\ files' = r.files
            /\ cur' = << >> /\ curN' = 0 /\ maxt' = 0
            /\ phase' = "opened"
  /\ op' = "Open"
  /\ UNCHANGED << dir, inodes, flushInterval, mint, delivered, found, dropped,
                  logged, layout, calls, damage, trunc, synced >>
  /\ UNCHANGED ivars

\* OpenSegmentWAL
OpenSegmentWAL ==
  /\ phase = "closed"
  /\ Opened(initSegments(dir, inodes))
  /\ UNCHANGED cvars

\* w.Reader(m).Read(...) once Read returned the reader r
ReadDone(r, m) ==
  /\ files' = [i \in 1..Len(r.idx) |-> r.files[r.idx[i]]]
  /\ dropped' = [i \in 1..(Len(r.files) - Len(r.idx)) |-> r.files[Len(r.idx) + i]]
  /\ dir' = r.dir
  /\ delivered' = r.out
  /\ found' = r.corrupt
  /\ lastErr' = r.err
  /\ mint' = m
  /\ phase' = "ready"
  /\ op' = "Read"
  /\ UNCHANGED << inodes, cur, curN, maxt, flushInterval, logged, layout, calls, damage, trunc,
                  synced >>
  /\ UNCHANGED ivars

\* w.Reader(m).Read(...), which the WAL asks for before the first write
ReaderRead(m) ==
  /\ phase = "opened"
  /\ ReadDone(Read(newWALReader(dir, inodes, files, [i \in 1..Len(files) |-> i], m)), m)
  /\ UNCHANGED cvars

\* where the entry just handed to the buffered writer lands: the tail's file position
\* plus the bytes buffered before it
landed(r, sz) ==
  [name |-> r.files[Len(r.files)].name,
   off  |-> r.files[Len(r.files)].pos + Len(r.cur[1]) - sz,
   sz   |-> sz]

\* the effect of one Log* call that ended in the writer state r; e is the entry it
\* was to write (wrote: it had one) of frame size sz
Logged(r, name, wrote, e, sz) ==
  /\ dir' = r.dir /\ inodes' = r.inodes /\ files' = r.files
  /\ cur' = r.cur /\ curN' = r.curN /\ maxt' = r.maxt /\ synced' = r.synced
  /\ lastErr' = r.err
  /\ op' = name
  /\ calls' = calls + 1
  /\ IF wrote /\ r.err = "nil"
       THEN /\ logged' = Append(logged, e)
            /\ layout' = Append(layout, landed(r, sz))
       ELSE UNCHANGED << logged, layout >>
  /\ damage' = IF damage.kind = "none" THEN damage ELSE [damage EXCEPT !.healed = TRUE]
  /\ mint' = 0 /\ delivered' = << >> /\ found' = << >> /\ dropped' = << >>
  /\ UNCHANGED << flushInterval, phase, trunc >>
  /\ UNCHANGED ivars

RECURSIVE flatten(_, _)
\* the tombstones of a batch, one per interval
flatten(stones, i) ==
  IF i > Len(stones) THEN << >>
  ELSE [j \in 1..Len(stones[i].intervals) |->
          [ref |-> stones[i].ref, intervals |-> << stones[i].intervals[j] >>]]
       \o flatten(stones, i + 1)

LogSeries(series) ==
  /\ phase = "ready" /\ calls < MaxLog
  /\ Logged(logSync(encodeSeriesW(W, series), flushInterval), "LogSeries", Len(series) > 0,
            [et |-> "series", recs |-> series], 10 + Len(encodeSeries(series)))
  /\ UNCHANGED cvars

LogSamples(samples) ==
  /\ phase = "ready" /\ calls < MaxLog
  /\ Logged(logSync(encodeSamples(W, samples), flushInterval), "LogSamples",
            Len(samples) > 0,
            [et |-> "samples", recs |-> samples], 10 + Len(samplesPayload(samples)))
  /\ UNCHANGED cvars

LogDeletes(stones) ==
  /\ phase = "ready" /\ calls < MaxLog
  /\ Logged(logSync(encodeDeletes(W, stones), flushInterval), "LogDeletes", TRUE,
            [et |-> "deletes", recs |-> flatten(stones, 1)],
            10 + Len(deletesPayload(stones, 1)))
  /\ UNCHANGED cvars

\* w.Sync() of the flusher once it returned r; its error is only logged
Synced(r) ==
  /\ inodes' = r.inodes /\ files' = r.files /\ cur' = r.cur /\ synced' = r.synced
  /\ op' = "Tick"
  /\ UNCHANGED << dir, curN, maxt, flushInterval, phase, lastErr, mint, delivered, found,
                  dropped, logged, layout, calls, damage, trunc >>
  /\ UNCHANGED ivars

\* a tick of SegmentWAL.run
Tick ==
  /\ phase = "ready" /\ flushInterval > 0 /\ cur # << >> /\ cur # << <<>> >>
  /\ Synced(sync(W))
  /\ UNCHANGED cvars

\* SegmentWAL.Close once its sync returned r; the process ends with it
Closed(r) ==
  /\ inodes' = r.inodes /\ synced' = r.synced
  /\ lastErr' = r.err
  /\ files' = << >> /\ cur' = << >> /\ curN' = 0 /\ maxt' = 0
  /\ phase' = "closed"
  /\ op' = "Close"
  /\ mint' = 0 /\ delivered' = << >> /\ found' = << >> /\ dropped' = << >>
  /\ UNCHANGED << dir, flushInterval, logged, layout, calls, damage, trunc >>
  /\ UNCHANGED ivars

\* SegmentWAL.Close
Close ==
  /\ phase \in {"opened", "ready"}
  /\ Closed(sync(W))
  /\ UNCHANGED cvars

(***************************************************************************)
(* Damage from outside while the WAL is closed: a crash that left part of  *)
(* a write behind the last entry of the tail, or bytes of one entry        *)
(* changed or cut off on disk.                                             *)
(***************************************************************************)

\* b with its lowest bit flipped
FlipBit(b) == IF b % 2 = 0 THEN b + 1 ELSE b - 1

\* what a torn write leaves behind the last complete entry: bytes that are no entry
\* (an invalid type), the beginning of a frame (its header and part of its body), a
\* whole frame whose checksum does not match, a lone header byte
Garbage(kind) ==
  CASE kind = "junk"      -> << 255, 255, 255 >>
    [] kind = "partframe" -> SubSeq(frame(WALEntrySeries, walSeriesSimple,
                                          encodeSeries(<< S(1) >>)), 1, 9)
    [] kind = "badsum"    -> << WALEntryDeletes, walDeletesSimple, 0, 0, 0, 1, 7, 1, 2, 3, 4 >>
    [] kind = "byte"      -> << WALEntrySamples >>

TornKinds == { "junk", "partframe", "badsum", "byte" }

\* the content c of a segment after the entry at [off, off + sz) was damaged
Damaged(c, kind, off, sz) ==
  CASE kind = "crc"         -> [c EXCEPT ![off + sz] = FlipBit(@)]
    [] kind = "type"        -> [c EXCEPT ![off + 1] = 9]
    [] kind = "shortheader" -> SubSeq(c, 1, off + 3)
    [] kind = "shortbody"   -> SubSeq(c, 1, off + 7)
    [] kind = "shortcrc"    -> SubSeq(c, 1, off + sz - 2)

CorruptKinds == { "crc", "type", "shortheader", "shortbody", "shortcrc" }

\* a crash tore the last write: garbage lies behind the last complete entry of the tail
TornTail(kind) ==
  /\ phase = "closed" /\ damage.kind = "none" /\ Len(logged) > 0
  /\ inodes' = [inodes EXCEPT ![dir[layout[Len(layout)].name]] =
                  WriteAt(@, layout[Len(layout)].off + layout[Len(layout)].sz, Garbage(kind))]
  /\ damage' = [kind |-> kind, name |-> layout[Len(layout)].name,
                off |-> layout[Len(layout)].off + layout[Len(layout)].sz, healed |-> FALSE]
  /\ op' = "TornTail"
  /\ UNCHANGED << dir, files, cur, curN, maxt, flushInterval, phase, lastErr, mint,
                  delivered, found, dropped, logged, layout, calls, trunc, synced >>
  /\ UNCHANGED << ivars, cvars >>

\* entry k of the log is damaged on disk: it and what follows it is lost
Corrupt(k, kind) ==
  /\ phase = "closed" /\ damage.kind = "none"
  /\ layout[k].sz >= 12
  /\ inodes' = [inodes EXCEPT ![dir[layout[k].name]] =
                  Damaged(@, kind, layout[k].off, layout[k].sz)]
  /\ damage' = [kind |-> kind, name |-> layout[k].name, off |-> layout[k].off,
                healed |-> FALSE]
  /\ logged' = SubSeq(logged, 1, k - 1)
  /\ layout' = SubSeq(layout, 1, k - 1)
  /\ op' = "Corrupt"
  /\ UNCHANGED << dir, files, cur, curN, maxt, flushInterval, phase, lastErr, mint,
                  delivered, found, dropped, calls, trunc, synced >>
  /\ UNCHANGED << ivars, cvars >>

(***************************************************************************)
(* Replay: what Read owes for a log.                                       *)
(***************************************************************************)

\* an entry as a replay from mint owes it: samples older than mint are left out
Kept(e, m) ==
  IF e.et = "samples" THEN [e EXCEPT !.recs = SelectSeq(@, LAMBDA s : s.T >= m)] ELSE e

\* the callbacks a replay from mint owes for the log
Expected(log, m) == [i \in 1..Len(log) |-> Kept(log[i], m)]

\* C1: after any successful Log* calls (over any rotations), Close and reopen, Read
\* returns no error and delivers every logged entry once, in write order, the records
\* of each batch in their order; only samples with T < mint are left out.
C1_ReplayDeliversLog ==
  (op = "Read" /\ damage.kind = "none")
    => (lastErr = "nil" /\ delivered = Expected(logged, mint))

\* two entries in two segments replayed, a sample of the second batch filtered out
C1_Witness ==
  /\ op = "Read" /\ damage.kind = "none" /\ lastErr = "nil"
  /\ Len(delivered) = 2 /\ Cardinality(DOMAIN dir) >= 2
  /\ layout[1].name # layout[2].name
  /\ logged[2].et = "samples" /\ delivered[2].recs # logged[2].recs
  /\ logged[1].et = "series" /\ Len(delivered[1].recs) = 2

\* C2: with bytes of a torn write behind the last complete entry of the tail, Read
\* returns no error and delivers every fully written entry; the entry of the next Log*
\* call is delivered by a later replay with all earlier ones and nothing else.
C2_TornTailReplay ==
  (op = "Read" /\ damage.kind \in TornKinds)
    => (lastErr = "nil" /\ delivered = Expected(logged, mint))

\* a replay that delivers an entry logged after the torn tail was replayed
C2_Witness ==
  /\ op = "Read" /\ damage.kind \in TornKinds /\ damage.healed
  /\ Len(logged) = 2 /\ Len(delivered) = 2
  /\ layout[2].name > damage.name

RECURSIVE candidates(_, _, _)
\* the first loop of Truncate: delFiles, as indices into w.files
candidates(fs, m, i) ==
  IF i > Len(fs) THEN << >>
  ELSE (IF fs[i].maxt < m THEN << i >> ELSE << >>) \o candidates(fs, m, i + 1)

RECURSIVE Seek(_, _, _)
\* Postings.Seek(x): forward to the first ref >= x; past the end when there is none
Seek(keep, c, x) ==
  IF c > Len(keep) \/ keep[c] >= x THEN c ELSE Seek(keep, c + 1, x)

RECURSIVE activeSeries(_, _, _, _, _)
\* the loop over the series of one entry: [c, acc, ex], ex when p.Seek returned false
activeSeries(series, i, keep, c, acc) ==
  IF i > Len(series) THEN [c |-> c, acc |-> acc, ex |-> FALSE]
  ELSE IF c > Len(keep) THEN [c |-> c, acc |-> acc, ex |-> TRUE]
  ELSE activeSeries(series, i + 1, keep,
                    IF i + 1 > Len(series) THEN c ELSE Seek(keep, c, series[i + 1].Ref),
                    IF keep[c] = series[i].Ref THEN Append(acc, series[i]) ELSE acc)

\* Truncate's loop body after the active series a of an entry were selected
writeActive(t, a) ==
  IF a.ex THEN [t EXCEPT !.c = a.c, !.done = TRUE]
  ELSE [t EXCEPT !.c = a.c,
                 !.out = IF a.acc = << >> THEN @ ELSE @ \o encodeSeries(a.acc)]

\* Truncate's loop body for a Series entry decoded as d
selectActive(t, d) ==
  IF d.err # "nil" THEN [t EXCEPT !.err = "decode samples while truncating", !.done = TRUE]
  ELSE IF Len(d.recs) = 0 THEN t
  ELSE writeActive(t, activeSeries(d.recs, 1, t.keep, Seek(t.keep, t.c, d.recs[1].Ref), << >>))

\* Truncate's loop body once wr.next() returned
truncateEntry(t) ==
  IF ~t.wr.ok THEN [t EXCEPT !.done = TRUE]
  ELSE IF t.wr.at.et # WALEntrySeries THEN t
  ELSE selectActive(t, decodeSeries(t.wr.at.buf))

RECURSIVE WRLoop(_)
\* Truncate's WRLoop
WRLoop(t) == IF t.done THEN t ELSE WRLoop(truncateEntry([t EXCEPT !.wr = next(@)]))

\* renameFile(tmp, w.files[0]) with the tmp file being file ino, then the removal of
\* delFiles[1:]
renameAndRemove(d, first, ino, gone) ==
  [n \in (DOMAIN d \cup {first}) \ gone |-> IF n = first THEN ino ELSE d[n]]

\* Truncate from the close of the tmp file on; the reader's error is not looked at
truncateFinish(s, cand, t) ==
  IF t.err # "nil" THEN [s EXCEPT !.files = t.wr.files, !.dir = t.wr.dir, !.err = t.err]
  ELSE [s EXCEPT !.files  = t.wr.files,
                 !.inodes = Append(@, t.out),
                 !.dir    = renameAndRemove(t.wr.dir, s.files[1].name, Len(s.inodes) + 1,
                              { s.files[cand[j]].name : j \in 2..Len(cand) })]

\* Truncate with the candidates cand
truncateCandidates(s, cand, keep) ==
  IF cand = << >> THEN s
  ELSE truncateFinish(s, cand,
         WRLoop([wr   |-> newWALReader(s.dir, s.inodes, s.files, cand, 0),
                 keep |-> keep, c |-> 1, out |-> metab, err |-> "nil", done |-> FALSE]))

\* SegmentWAL.Truncate(m, p)
TruncateW(s, m, keep) == truncateCandidates(s, candidates(s.files, m, 1), keep)

\* the mints and postings handed to Truncate
TruncateMints == {1, 4}
Keeps         == { << >>, << 1 >>, << 2, 3 >> }

RECURSIVE keptSeries(_, _, _, _, _)
\* the series records with a ref of keep that the log holds in the segments names
keptSeries(log, lay, names, keep, i) ==
  IF i > Len(log) THEN << >>
  ELSE (IF log[i].et = "series" /\ lay[i].name \in names
          THEN SelectSeq(log[i].recs, LAMBDA s : \E j \in 1..Len(keep) : keep[j] = s.Ref)
          ELSE << >>)
       \o keptSeries(log, lay, names, keep, i + 1)

\* Truncate(m, keep) once it ended in the writer state r
Truncated(r, m, keep, cand) ==
  /\ dir' = r.dir /\ inodes' = r.inodes /\ files' = r.files
  /\ lastErr' = r.err
  /\ op' = "Truncate"
  /\ trunc' = [done |-> TRUE, mint |-> m, keep |-> keep,
               cand |-> [j \in 1..Len(cand) |-> files[cand[j]].name],
               kept |-> keptSeries(logged, layout, { files[cand[j]].name : j \in 1..Len(cand) },
                                   keep, 1),
               kept1 |-> keptSeries(logged, layout, { files[cand[j]].name : j \in {1} \cap DOMAIN cand },
                                    keep, 1),
               n |-> Len(logged)]
  /\ mint' = 0 /\ delivered' = << >> /\ found' = << >> /\ dropped' = << >>
  /\ UNCHANGED << cur, curN, maxt, flushInterval, phase, logged, layout, calls, damage,
                  synced >>
  /\ UNCHANGED ivars

\* w.Truncate(m, keep), once in a behaviour
Truncate(m, keep) ==
  /\ phase \in {"opened", "ready"} /\ ~trunc.done
  /\ Truncated(TruncateW(W, m, keep), m, keep, candidates(files, m, 1))
  /\ UNCHANGED cvars

(***************************************************************************)
(* Truncate: what it leaves on disk.                                       *)
(***************************************************************************)

\* a replay from mint 0 over the handles fs of the directory
replayFiles(d, ino, fs) == Read(newWALReader(d, ino, fs, [i \in 1..Len(fs) |-> i], 0))

\* a replay of the directory d by a WAL that opens it
Replay(d, ino) == replayFiles(d, ino, initSegments(d, ino).files)

\* a replay of the one segment of content c
ReplayFile(c) == Replay(0 :> 1, << c >>)

\* the series records among the callbacks out
SeriesOf(out) ==
  { out[i].recs[j] : <<i, j>> \in { p \in (1..Len(out)) \X (1..3) :
                                     out[p[1]].et = "series" /\ p[2] <= Len(out[p[1]].recs) } }

RECURSIVE FramesOnly(_, _)
\* c holds from offset pos to its end whole Series frames and nothing else
FramesOnly(c, pos) ==
  IF pos >= Len(c) THEN pos = Len(c)
  ELSE /\ walReaderEntry(c, pos).kind = "ok"
       /\ walReaderEntry(c, pos).et = WALEntrySeries
       /\ FramesOnly(c, walReaderEntry(c, pos).pos)

\* c is a segment of Series entries
WellFormed(c) == Len(c) >= 8 /\ SubSeq(c, 1, 8) = metab /\ FramesOnly(c, 8)

\* the refs of keep
RefsOf(keep) == { keep[j] : j \in 1..Len(keep) }

\* C4: after Truncate(mint, keep) with a candidate, the file that replaces the oldest
\* candidate is the 8 byte header followed only by framed Series entries, and its
\* replay delivers series records only: those of the oldest candidate with a ref of keep.
C4_TruncateWritesSegment ==
  (op = "Truncate" /\ lastErr = "nil" /\ trunc.cand # << >>
     /\ (cur = << >> \/ cur = << <<>> >>))
    => /\ trunc.cand[1] \in DOMAIN dir
       /\ WellFormed(inodes[dir[trunc.cand[1]]])
       /\ \A i \in 1..Len(ReplayFile(inodes[dir[trunc.cand[1]]]).out) :
            ReplayFile(inodes[dir[trunc.cand[1]]]).out[i].et = "series"
       /\ \A s \in SeriesOf(ReplayFile(inodes[dir[trunc.cand[1]]]).out) :
            s.Ref \in RefsOf(trunc.keep)
       /\ \A j \in 1..Len(trunc.kept1) :
            trunc.kept1[j] \in SeriesOf(ReplayFile(inodes[dir[trunc.cand[1]]]).out)

\* C5: Truncate(mint, keep) leaves every segment with maxt >= mint in place with its
\* content, wherever the candidates are in w.files; without a candidate it returns
\* success and changes no file and no state of the WAL.
C5_TruncateSparesLive ==
  [][ op' = "Truncate" =>
        /\ \A i \in 1..Len(files) :
             (files[i].maxt >= trunc'.mint /\ files[i].name \in DOMAIN dir)
               => /\ files[i].name \in DOMAIN dir'
                  /\ inodes'[dir'[files[i].name]] = inodes[dir[files[i].name]]
        /\ (\A i \in 1..Len(files) : files[i].maxt >= trunc'.mint)
             => /\ lastErr' = "nil"
                /\ UNCHANGED << dir, inodes, files, cur, curN, maxt >> ]_vars

\* C6: every ref of keep with a Series record in a candidate segment before Truncate
\* has that record, with its labels, delivered by a replay after Truncate, whatever
\* the order of the refs in the log and their grouping into batches.
C6_KeptSeriesSurvive ==
  (op = "Truncate" /\ lastErr = "nil" /\ (cur = << >> \/ cur = << <<>> >>))
    => \A j \in 1..Len(trunc.kept) : trunc.kept[j] \in SeriesOf(Replay(dir, inodes).out)

(***************************************************************************)
(* The index writer (src/index.go).  A writer state w is                   *)
(* [f, toc, stage, series, symbols, labelIndexes, postings, err]: f the    *)
(* bytes written so far (w.pos is Len(w.f)), series the map from ref to    *)
(* [labels, chunks, offset], symbols the map from string to offset.        *)
(* Strings are sequences of bytes.                                         *)
(***************************************************************************)

idxStagePopulate == 0
idxStageLabelIndex == 1
idxStagePostings == 2
idxStageDone == 3
indexTOCLen == 52

\* MagicIndex 0xBAAAD700, then indexFormatV1
indexMeta == <<186, 170, 215, 0, 1>>

RECURSIVE strCompare(_, _, _)
\* strings.Compare from byte i on
strCompare(a, b, i) ==
  IF i > Len(a) /\ i > Len(b) THEN 0
  ELSE IF i > Len(a) THEN -1
  ELSE IF i > Len(b) THEN 1
  ELSE IF a[i] < b[i] THEN -1
  ELSE IF a[i] > b[i] THEN 1
  ELSE strCompare(a, b, i + 1)

RECURSIVE sortStrings(_)
\* sort.Strings of the strings strs
sortStrings(strs) ==
  IF strs = {} THEN << >>
  ELSE LET m == CHOOSE m \in strs : \A x \in strs : strCompare(m, x, 1) <= 0
       IN  << m >> \o sortStrings(strs \ {m})

RECURSIVE labelsCompare(_, _, _)
\* labels.Compare from label i on
labelsCompare(a, b, i) ==
  IF i > Len(a) /\ i > Len(b) THEN 0
  ELSE IF i > Len(a) THEN -1
  ELSE IF i > Len(b) THEN 1
  ELSE IF strCompare(a[i].Name, b[i].Name, 1) # 0 THEN strCompare(a[i].Name, b[i].Name, 1)
  ELSE IF strCompare(a[i].Value, b[i].Value, 1) # 0 THEN strCompare(a[i].Value, b[i].Value, 1)
  ELSE labelsCompare(a, b, i + 1)

\* encbuf.putUvarintStr
putUvarintStr(s) == PutUvarint(Len(s)) \o s

\* encbuf.putHash on a buffer holding b
putHash(b) == b \o crc32Sum(b)

\* buf1 holding the uvarint length of buf2, buf2 with its hash: what w.write gets
sized(buf2) == PutUvarint(Len(buf2)) \o putHash(buf2)

\* buf1 holding a count and the length of buf2, buf2 with its hash
counted(n, buf2) == BE32(n) \o BE32(Len(buf2)) \o putHash(buf2)

\* indexWriter.write below the size limit, with the buffers of the call as one
write(w, b) == [w EXCEPT !.f = @ \o b]

\* A position of 64 bits as two numbers: p[1] * 2^16 + p[2] with p[2] < 2^16.
\* math.MaxUint32 is 2^32 - 1
MaxUint32 == << 65535, 65535 >>

\* w.pos += uint64(n)
posAdd(p, n) == << p[1] + (p[2] + n) \div 65536, (p[2] + n) % 65536 >>

\* p > q of two positions
posGreater(p, q) == p[1] > q[1] \/ (p[1] = q[1] /\ p[2] > q[2])

\* one round of the loop of indexWriter.write: the buffer is handed to fbuf, the position
\* advanced, and then compared with the limit
writeBuf(w, b) ==
  [w EXCEPT !.f = @ \o b,
            !.pos = posAdd(@, Len(b)),
            !.err = IF posGreater(posAdd(w.pos, Len(b)), MaxUint32)
                      THEN "exceeding max size of 4GiB" ELSE "nil"]

RECURSIVE writeBufs(_, _, _)
\* indexWriter.write(bufs...) from buffer i on, on a writer with its position: the loop
\* ends at the first buffer that leaves the position beyond the limit
writeBufs(w, bufs, i) ==
  IF i > Len(bufs) THEN w
  ELSE IF writeBuf(w, bufs[i]).err # "nil" THEN writeBuf(w, bufs[i])
  ELSE writeBufs(writeBuf(w, bufs[i]), bufs, i + 1)

RECURSIVE symbolsBody(_, _)
\* buf2 of writeSymbols after the first k symbols
symbolsBody(syms, k) ==
  IF k = 0 THEN << >> ELSE symbolsBody(syms, k - 1) \o putUvarintStr(syms[k])

\* indexWriter.writeSymbols for the sorted symbols syms
writeSorted(w, syms) ==
  [w EXCEPT !.symbols = [s \in DOMAIN w.symbols |->
                           Len(w.f) + 8 + Len(symbolsBody(syms,
                             (CHOOSE k \in 1..Len(syms) : syms[k] = s) - 1))],
            !.f = @ \o counted(Len(syms), symbolsBody(syms, Len(syms)))]

\* indexWriter.writeSymbols
writeSymbols(w) == writeSorted(w, sortStrings(DOMAIN w.symbols))

RECURSIVE sortSeries(_, _)
\* sort.Sort(series): the refs R of w.series by their labels
sortSeries(ser, R) ==
  IF R = {} THEN << >>
  ELSE LET m == CHOOSE m \in R : \A x \in R : labelsCompare(ser[m].labels, ser[x].labels, 1) <= 0
       IN  << m >> \o sortSeries(ser, R \ {m})

RECURSIVE seriesLabels(_, _, _)
\* the symbol references of writeSeries for the labels from i on
seriesLabels(sym, lset, i) ==
  IF i > Len(lset) THEN << >>
  ELSE PutUvarint(sym[lset[i].Name]) \o PutUvarint(sym[lset[i].Value])
       \o seriesLabels(sym, lset, i + 1)

RECURSIVE seriesChunks(_, _)
\* the chunk metas of writeSeries from i on; Sum is what c.hash leaves in the checksum
seriesChunks(chunks, i) ==
  IF i > Len(chunks) THEN << >>
  ELSE PutVarint(chunks[i].MinTime) \o PutVarint(chunks[i].MaxTime)
       \o PutUvarint(chunks[i].Ref) \o chunks[i].Sum \o seriesChunks(chunks, i + 1)

\* buf2 of writeSeries for the series s
seriesBody(sym, s) ==
  PutUvarint(Len(s.labels)) \o seriesLabels(sym, s.labels, 1)
  \o PutUvarint(Len(s.chunks)) \o seriesChunks(s.chunks, 1)

RECURSIVE writeSeriesFrom(_, _, _)
\* the loop of writeSeries over the sorted refs
writeSeriesFrom(w, refs, i) ==
  IF i > Len(refs) THEN w
  ELSE writeSeriesFrom(
         [w EXCEPT !.series[refs[i]].offset = Len(w.f),
                   !.f = @ \o sized(seriesBody(w.symbols, w.series[refs[i]]))],
         refs, i + 1)

\* indexWriter.writeSeries
writeSeries(w) ==
  writeSeriesFrom(write(w, BE32(Cardinality(DOMAIN w.series))),
                  sortSeries(w.series, DOMAIN w.series), 1)

RECURSIVE putKeys(_, _)
\* the keys of one hash entry from key i on
putKeys(keys, i) ==
  IF i > Len(keys) THEN << >> ELSE putUvarintStr(keys[i]) \o putKeys(keys, i + 1)

RECURSIVE offsetTableBody(_, _)
\* buf2 of writeOffsetTable from entry i on
offsetTableBody(entries, i) ==
  IF i > Len(entries) THEN << >>
  ELSE PutUvarint(Len(entries[i].keys)) \o putKeys(entries[i].keys, 1)
       \o PutUvarint(entries[i].offset) \o offsetTableBody(entries, i + 1)

\* indexWriter.writeOffsetTable
writeOffsetTable(w, entries) ==
  write(w, counted(Len(entries), offsetTableBody(entries, 1)))

\* indexWriter.writeTOC
writeTOC(w) ==
  write(w, putHash(BE64(w.toc.symbols) \o BE64(w.toc.series) \o BE64(w.toc.labelIndices)
                   \o BE64(w.toc.labelIndicesTable) \o BE64(w.toc.postings)
                   \o BE64(w.toc.postingsTable)))

\* ensureStage: the series section, after the symbols
populateSeries(w) == writeSeries([w EXCEPT !.toc.series = Len(w.f)])

\* ensureStage: the population stage is completed by the symbols and the series
populate(w) ==
  IF w.stage = idxStagePopulate
    THEN populateSeries(writeSymbols([w EXCEPT !.toc.symbols = Len(w.f)]))
    ELSE w

\* ensureStage: w.stage = s, reached by every case of the switch
enter(w, s) == [w EXCEPT !.stage = s]

\* ensureStage: w.toc.postings = w.pos, after the label index table
postingsStart(w) == [w EXCEPT !.toc.postings = Len(w.f)]

\* ensureStage: the switch that marks the start of the sections of stage s
mark(w, s) ==
  CASE s = idxStageLabelIndex -> enter([w EXCEPT !.toc.labelIndices = Len(w.f)], s)
    [] s = idxStagePostings ->
         enter(postingsStart(writeOffsetTable([w EXCEPT !.toc.labelIndicesTable = Len(w.f)],
                                              w.labelIndexes)), s)
    [] s = idxStageDone ->
         enter(writeTOC(writeOffsetTable([w EXCEPT !.toc.postingsTable = Len(w.f)],
                                         w.postings)), s)

\* an ensureStage that would accept a stage before the current one
ensureStageUnordered(w, s) ==
  IF w.stage = s THEN w ELSE mark(populate(w), s)

\* indexWriter.ensureStage
ensureStage(w, s) ==
  IF w.stage = s THEN w
  ELSE IF w.stage > s THEN [w EXCEPT !.err = "invalid stage"]
  ELSE mark(populate(w), s)

\* the value of a Go map[string]uint32 at a key: zero when the key is absent
symbolOf(sym, s) == IF s \in DOMAIN sym THEN sym[s] ELSE 0

RECURSIVE tuplesLess(_, _, _, _, _)
\* stringTuples.Less(i, j) from component k on, indexes counted from 0 as in the code
tuplesLess(s, l, i, j, k) ==
  IF k >= l THEN FALSE
  ELSE IF strCompare(s[i + k + 1], s[j + k + 1], 1) < 0 THEN TRUE
  ELSE IF strCompare(s[i + k + 1], s[j + k + 1], 1) > 0 THEN FALSE
  ELSE tuplesLess(s, l, i, j, k + 1)

RECURSIVE tuplesSwap(_, _, _, _, _, _)
\* stringTuples.Swap(i, j) from component k on; c is the copy of t.s[i:i+l]
tuplesSwap(s, c, l, i, j, k) ==
  IF k >= l THEN s
  ELSE tuplesSwap([s EXCEPT ![i + k + 1] = s[j + k + 1], ![j + k + 1] = c[k + 1]],
                  c, l, i, j, k + 1)

RECURSIVE tuplesSink(_, _, _)
\* the inner loop of the insertion sort: for j > 0 && Less(j, j-1) { Swap(j, j-1) }
tuplesSink(s, l, j) ==
  IF j > 0 /\ tuplesLess(s, l, j, j - 1, 0)
    THEN tuplesSink(tuplesSwap(s, SubSeq(s, j + 1, j + l), l, j, j - 1, 0), l, j - 1)
    ELSE s

RECURSIVE tuplesSort(_, _, _)
\* sort.Sort(valt) on up to MaxTuples tuples: the insertion sort from tuple i on
tuplesSort(s, l, i) ==
  IF i >= Len(s) \div l THEN s ELSE tuplesSort(tuplesSink(s, l, i), l, i + 1)

RECURSIVE labelIndexBody(_, _, _)
\* the symbol references of WriteLabelIndex from value i on
labelIndexBody(sym, vals, i) ==
  IF i > Len(vals) THEN << >>
  ELSE BE32(symbolOf(sym, vals[i])) \o labelIndexBody(sym, vals, i + 1)

\* WriteLabelIndex once the stage is ensured
labelIndexWrite(w, names, values) ==
  IF Len(values) % Len(names) # 0 THEN [w EXCEPT !.err = "invalid size"]
  ELSE [w EXCEPT !.labelIndexes = Append(@, [keys |-> names, offset |-> Len(w.f)]),
                 !.f = @ \o sized(PutUvarint(Len(names))
                                  \o labelIndexBody(w.symbols, tuplesSort(values, Len(names), 1), 1))]

\* what follows ensureStage in WriteLabelIndex
labelIndexStaged(w1, names, values) ==
  IF w1.err # "nil" THEN w1 ELSE labelIndexWrite(w1, names, values)

\* indexWriter.WriteLabelIndex
WriteLabelIndexW(w, names, values) ==
  labelIndexStaged(ensureStage(w, idxStageLabelIndex), names, values)

RECURSIVE seriesOffsets(_, _, _)
\* the loop of WritePostings over the iterator: the offsets found, or the first unknown ref
seriesOffsets(ser, it, i) ==
  IF i > Len(it) THEN [refs |-> << >>, err |-> "nil"]
  ELSE IF it[i] \notin DOMAIN ser THEN [refs |-> << >>, err |-> "series not found"]
  ELSE [seriesOffsets(ser, it, i + 1) EXCEPT !.refs = << ser[it[i]].offset >> \o @]

RECURSIVE uint32Insert(_, _)
\* x put before the first greater element of the sorted s
uint32Insert(s, x) ==
  IF s = << >> THEN << x >>
  ELSE IF x < Head(s) THEN << x >> \o s
  ELSE << Head(s) >> \o uint32Insert(Tail(s), x)

RECURSIVE uint32Sort(_)
\* sort.Sort(uint32slice(refs))
uint32Sort(s) ==
  IF s = << >> THEN << >> ELSE uint32Insert(uint32Sort(Tail(s)), Head(s))

RECURSIVE postingsBody(_, _)
\* buf2 of WritePostings from offset i on
postingsBody(refs, i) ==
  IF i > Len(refs) THEN << >> ELSE BE32(refs[i]) \o postingsBody(refs, i + 1)

\* WritePostings once the entry is appended: the offsets are resolved, sorted and written
postingsWrite(w, o) ==
  IF o.err # "nil" THEN [w EXCEPT !.err = o.err]
  ELSE write(w, sized(postingsBody(uint32Sort(o.refs), 1)))

\* what follows ensureStage in WritePostings
postingsStaged(w1, name, value, it) ==
  IF w1.err # "nil" THEN w1
  ELSE postingsWrite([w1 EXCEPT !.postings = Append(@, [keys |-> << name, value >>,
                                                         offset |-> Len(w1.f)])],
                     seriesOffsets(w1.series, it, 1))

\* indexWriter.WritePostings
WritePostingsW(w, name, value, it) ==
  postingsStaged(ensureStage(w, idxStagePostings), name, value, it)

\* what follows ensureStage in Close: Flush, Fsync and Close of the file
closeStaged(w1) ==
  IF w1.err # "nil" THEN w1
  ELSE IF w1.closed THEN [w1 EXCEPT !.err = "file already closed"]
  ELSE [w1 EXCEPT !.closed = TRUE]

\* indexWriter.Close
CloseW(w) == closeStaged(ensureStage(w, idxStageDone))

\* the names and values of a label set
symbolsOf(lset) ==
  { lset[i].Name : i \in DOMAIN lset } \cup { lset[i].Value : i \in DOMAIN lset }

\* AddSeries without the check of the reference: the later series replaces the earlier
AddSeriesOverwriting(w, ref, lset, chunks) ==
  [w EXCEPT !.symbols = [s \in DOMAIN w.symbols \cup symbolsOf(lset) |->
                           IF s \in symbolsOf(lset) THEN 0 ELSE w.symbols[s]],
            !.series = [r \in DOMAIN w.series \cup {ref} |->
                          IF r = ref THEN [labels |-> lset, chunks |-> chunks, offset |-> 0]
                          ELSE w.series[r]]]

\* indexWriter.AddSeries
AddSeriesW(w, ref, lset, chunks) ==
  IF ref \in DOMAIN w.series THEN [w EXCEPT !.err = "already added"]
  ELSE [w EXCEPT !.symbols = [s \in DOMAIN w.symbols \cup symbolsOf(lset) |->
                                IF s \in symbolsOf(lset) THEN 0 ELSE w.symbols[s]],
                 !.series = [r \in DOMAIN w.series \cup {ref} |->
                               IF r = ref THEN [labels |-> lset, chunks |-> chunks, offset |-> 0]
                               ELSE w.series[r]]]

\* newIndexWriter: the file holds the meta bytes
newIndexWriter ==
  [f |-> indexMeta, closed |-> FALSE, stage |-> idxStagePopulate,
   toc |-> [symbols |-> 0, series |-> 0, labelIndices |-> 0, labelIndicesTable |-> 0,
            postings |-> 0, postingsTable |-> 0],
   series |-> [r \in {} |-> 0], symbols |-> [s \in {} |-> 0],
   labelIndexes |-> << >>, postings |-> << >>, err |-> "nil"]

(***************************************************************************)
(* The index reader (src/index.go) on the bytes b of a file.               *)
(***************************************************************************)

\* the separator of the keys of an offset table entry
sep == 255

RECURSIVE join(_, _)
\* strings.Join(keys, sep) from key i on
join(keys, i) ==
  IF i > Len(keys) THEN << >>
  ELSE IF i = Len(keys) THEN keys[i]
  ELSE keys[i] \o << sep >> \o join(keys, i + 1)

RECURSIVE split(_, _, _)
\* strings.Split(s, sep) from byte i on, cur the part read so far
split(s, i, part) ==
  IF i > Len(s) THEN << part >>
  ELSE IF s[i] = sep THEN << part >> \o split(s, i + 1, << >>)
  ELSE split(s, i + 1, Append(part, s[i]))

\* the map m with m[k] = v
put(m, k, v) == [x \in DOMAIN m \cup {k} |-> IF x = k THEN v ELSE m[x]]

\* a map of the reader that holds nothing
noEntries == [k \in {} |-> 0]

RECURSIVE readKeys(_, _, _)
RECURSIVE tableEntry(_, _, _, _)

\* decbuf.readUvarintStr with the length l read, then the remaining n - 1 keys
readKey(d, p, l, n) ==
  IF l[2] < 1 \/ Len(d) - (p + l[2]) < l[1] THEN [keys |-> << >>, p |-> p, err |-> "invalid size"]
  ELSE [readKeys(d, p + l[2] + l[1], n - 1)
          EXCEPT !.keys = << SubSeq(d, p + l[2] + 1, p + l[2] + l[1]) >> \o @]

\* the n keys of an entry of the table d from position p on
readKeys(d, p, n) ==
  IF n = 0 THEN [keys |-> << >>, p |-> p, err |-> "nil"]
  ELSE readKey(d, p, Uvarint(d, p), n)

\* the offset o of the entry with keys ks, then the rest of the table
tablePut(d, ks, o, cnt, res) ==
  IF o[2] < 1 THEN [m |-> res, err |-> "invalid size"]
  ELSE tableEntry(d, ks.p + o[2], cnt - 1, put(res, join(ks.keys, 1), o[1]))

\* the keys ks of an entry read, its offset is next
tableOffset(d, ks, cnt, res) ==
  IF ks.err # "nil" THEN [m |-> res, err |-> ks.err]
  ELSE tablePut(d, ks, Uvarint(d, ks.p), cnt, res)

\* the key count kc of an entry read, its keys are next
tableKeys(d, p, kc, cnt, res) ==
  IF kc[2] < 1 THEN [m |-> res, err |-> "invalid size"]
  ELSE tableOffset(d, readKeys(d, p + kc[2], kc[1]), cnt, res)

\* the loop of readOffsetTable: for d2.err() == nil && d2.len() > 0 && cnt > 0
tableEntry(d, p, cnt, res) ==
  IF p < Len(d) /\ cnt > 0 THEN tableKeys(d, p, Uvarint(d, p), cnt, res)
  ELSE [m |-> res, err |-> "nil"]

\* readOffsetTable with cnt and el read
readTable(b, off, cnt, el) ==
  IF el > Len(b) - (off + 8) THEN [m |-> noEntries, err |-> "invalid size"]
  ELSE tableEntry(SubSeq(b, off + 9, off + 8 + el), 0, cnt, noEntries)

\* indexReader.readOffsetTable
readOffsetTable(b, off) ==
  IF off = 0 THEN [m |-> noEntries, err |-> "nil"]
  ELSE IF Len(b) < off + 8 THEN [m |-> noEntries, err |-> "invalid size"]
  ELSE readTable(b, off, Uint32At(b, off), Uint32At(b, off + 4))

\* indexReader.readTOC on a file of at least indexTOCLen bytes
readTOC(b) ==
  [symbols           |-> Int64At(b, Len(b) - indexTOCLen),
   series            |-> Int64At(b, Len(b) - indexTOCLen + 8),
   labelIndices      |-> Int64At(b, Len(b) - indexTOCLen + 16),
   labelIndicesTable |-> Int64At(b, Len(b) - indexTOCLen + 24),
   postings          |-> Int64At(b, Len(b) - indexTOCLen + 32),
   postingsTable     |-> Int64At(b, Len(b) - indexTOCLen + 40)]

\* a reader that was never opened, or that newIndexReader did not return
noReader(err) ==
  [open |-> FALSE, b |-> << >>, toc |-> newIndexWriter.toc,
   labels |-> noEntries, postings |-> noEntries, err |-> err]

\* newIndexReader with both offset tables read
readerOf(b, toc, lt, pt) ==
  IF lt.err # "nil" THEN noReader("read label index table")
  ELSE IF pt.err # "nil" THEN noReader("read postings table")
  ELSE [open |-> TRUE, b |-> b, toc |-> toc, labels |-> lt.m, postings |-> pt.m, err |-> "nil"]

\* newIndexReader with the TOC read
readerAt(b, toc) ==
  readerOf(b, toc, readOffsetTable(b, toc.labelIndicesTable),
           readOffsetTable(b, toc.postingsTable))

\* newIndexReader
newIndexReader(b) ==
  IF Len(b) < 4 THEN noReader("invalid size")
  ELSE IF SubSeq(b, 1, 4) # SubSeq(indexMeta, 1, 4) THEN noReader("invalid magic number")
  ELSE IF Len(b) < indexTOCLen THEN noReader("read TOC")
  ELSE readerAt(b, readTOC(b))

\* indexReader.getSized with the length l read
sizedAt(b, off, l) ==
  IF l[2] < 1 \/ l[1] > Len(b) - off - l[2] THEN [b |-> << >>, err |-> "invalid size"]
  ELSE [b |-> SubSeq(b, off + l[2] + 1, off + l[2] + l[1]), err |-> "nil"]

\* indexReader.getSized
getSized(b, off) ==
  IF off > Len(b) THEN [b |-> << >>, err |-> "invalid size"]
  ELSE sizedAt(b, off, Uvarint(b, off))

\* what a query of the reader returned
result(err, hit, l, b, list, indices) ==
  [key |-> << >>, err |-> err, found |-> hit, l |-> l, b |-> b, list |-> list,
   indices |-> indices, labels |-> << >>, chunks |-> << >>]

\* LabelValues with the tuple length c read
labelValuesOf(b, c) ==
  IF c[2] < 1 THEN result("invalid size", TRUE, 0, << >>, << >>, {})
  ELSE result("nil", TRUE, c[1], SubSeq(b, c[2] + 1, Len(b)), << >>, {})

\* LabelValues with the sized region read
labelValuesAt(s) ==
  IF s.err # "nil" THEN result(s.err, TRUE, 0, << >>, << >>, {})
  ELSE labelValuesOf(s.b, Uvarint(s.b, 0))

\* LabelValues that returns an error when there is no label index for the names
LabelValuesStrict(r, names) ==
  IF join(names, 1) \notin DOMAIN r.labels
    THEN result("label index doesn't exist", FALSE, 0, << >>, << >>, {})
    ELSE labelValuesAt(getSized(r.b, r.labels[join(names, 1)]))

\* indexReader.LabelValues: found is FALSE for emptyStringTuples
LabelValuesR(r, names) ==
  IF join(names, 1) \notin DOMAIN r.labels THEN result("nil", FALSE, 0, << >>, << >>, {})
  ELSE labelValuesAt(getSized(r.b, r.labels[join(names, 1)]))

\* serializedStringTuples.Len
tuplesLen(t) == Len(t.b) \div (4 * t.l)

\* indexReader.LabelIndices
LabelIndicesR(r) ==
  result("nil", TRUE, 0, << >>, << >>, { split(s, 1, << >>) : s \in DOMAIN r.labels })

\* newBigEndianPostings(b), iterated to its end
bigEndianPostings(b) == [i \in 1..(Len(b) \div 4) |-> Uint32At(b, 4 * (i - 1))]

\* Postings with the sized region read
postingsAt(s) ==
  IF s.err # "nil" THEN result(s.err, TRUE, 0, << >>, << >>, {})
  ELSE IF Len(s.b) % 4 # 0 THEN result("invalid size", TRUE, 0, << >>, << >>, {})
  ELSE result("nil", TRUE, 0, << >>, bigEndianPostings(s.b), {})

\* indexReader.Postings: found is FALSE for emptyPostings
PostingsR(r, name, value) ==
  IF join(<< name, value >>, 1) \notin DOMAIN r.postings
    THEN result("nil", FALSE, 0, << >>, << >>, {})
    ELSE postingsAt(getSized(r.b, r.postings[join(<< name, value >>, 1)]))

\* indexReader.lookupSymbol with the length l read
lookupAt(b, o, l) ==
  IF o + l[2] + l[1] > Len(b) THEN [s |-> << >>, err |-> "invalid length"]
  ELSE [s |-> SubSeq(b, o + l[2] + 1, o + l[2] + l[1]), err |-> "nil"]

\* indexReader.lookupSymbol
lookupSymbol(b, o) ==
  IF o > Len(b) THEN [s |-> << >>, err |-> "invalid symbol offset"]
  ELSE lookupAt(b, o, Uvarint(b, o))

RECURSIVE tupleStrings(_, _, _, _)
\* the loop of serializedStringTuples.At(i) from component k on: the reference is read at
\* byte (i+k)*4 of t.b and looked up in the file b
tupleStrings(b, t, i, k) ==
  IF k >= t.l THEN [s |-> << >>, err |-> "nil"]
  ELSE LET s == lookupSymbol(b, Uint32At(t.b, (i + k) * 4))
           rest == tupleStrings(b, t, i, k + 1)
       IN  IF s.err # "nil" THEN [s |-> << >>, err |-> "symbol lookup"]
           ELSE IF rest.err # "nil" THEN rest
           ELSE [s |-> << s.s >> \o rest.s, err |-> "nil"]

\* serializedStringTuples.At; slicing t.b at a negative index panics
tuplesAt(b, t, i) ==
  IF Len(t.b) < (i + t.l) * 4 THEN [s |-> << >>, err |-> "invalid size"]
  ELSE IF i < 0 THEN [s |-> << >>, err |-> "panic"]
  ELSE tupleStrings(b, t, i, 0)

\* Series: the symbol s looked up, the bytes go on at p
symbolFound(p, s) == [s |-> s.s, p |-> p, err |-> s.err]

\* Series: a symbol offset o read at p, the symbol is looked up
symbolAt(b, p, o) ==
  IF o[2] < 1 THEN [s |-> << >>, p |-> p, err |-> "invalid size"]
  ELSE symbolFound(p + o[2], lookupSymbol(b, o[1]))

\* Series: a symbol reference read at p
readSymbol(b, p) == symbolAt(b, p, Uvarint(b, p))

RECURSIVE readLabels(_, _, _)

\* Series: name n and value v of a label read, k - 1 labels follow
labelValue(b, n, v, k) ==
  IF v.err # "nil" THEN [labels |-> << >>, p |-> v.p, err |-> v.err]
  ELSE [readLabels(b, v.p, k - 1) EXCEPT !.labels = << [Name |-> n.s, Value |-> v.s] >> \o @]

\* Series: the name n of a label read, its value is next
labelName(b, n, k) ==
  IF n.err # "nil" THEN [labels |-> << >>, p |-> n.p, err |-> n.err]
  ELSE labelValue(b, n, readSymbol(b, n.p), k)

\* Series: the loop over the k labels from p on
readLabels(b, p, k) ==
  IF k = 0 THEN [labels |-> << >>, p |-> p, err |-> "nil"]
  ELSE labelName(b, readSymbol(b, p), k)

RECURSIVE readChunks(_, _, _)

\* Series: a chunk with times f, l and offset o read, its checksum is skipped
chunkRead(b, p, f, l, o, k) ==
  IF o[2] < 1 THEN [chunks |-> << >>, err |-> "invalid size"]
  ELSE [readChunks(b, p + o[2] + 4, k - 1)
          EXCEPT !.chunks = << [Ref |-> o[1], MinTime |-> f, MaxTime |-> l] >> \o @]

\* Series: first time f and last time l of a chunk read
chunkLast(b, p, f, l, k) ==
  IF l[2] < 1 THEN [chunks |-> << >>, err |-> "invalid size"]
  ELSE chunkRead(b, p + l[2], f, l[1], Uvarint(b, p + l[2]), k)

\* Series: the first time f of a chunk read
chunkFirst(b, p, f, k) ==
  IF f[2] < 1 THEN [chunks |-> << >>, err |-> "invalid size"]
  ELSE chunkLast(b, p + f[2], f[1], Varint(b, p + f[2]), k)

\* Series: the loop over the k chunk metas from p on
readChunks(b, p, k) ==
  IF k = 0 THEN [chunks |-> << >>, err |-> "nil"]
  ELSE chunkFirst(b, p, Varint(b, p), k)

\* what Series returned
seriesResult(err, lset, chunks) ==
  [result(err, TRUE, 0, << >>, << >>, {}) EXCEPT !.labels = lset, !.chunks = chunks]

\* Series with the labels ls and the chunks cs read
seriesRead(ls, cs) ==
  IF cs.err # "nil" THEN seriesResult(cs.err, << >>, << >>)
  ELSE seriesResult("nil", ls.labels, cs.chunks)

\* Series with the labels ls and the number of chunks k read
seriesChunkCount(b, ls, k) ==
  IF k[2] < 1 THEN seriesResult("invalid size", << >>, << >>)
  ELSE seriesRead(ls, readChunks(b, ls.p + k[2], k[1]))

\* Series with the labels ls read
seriesLabelsRead(b, ls) ==
  IF ls.err # "nil" THEN seriesResult(ls.err, << >>, << >>)
  ELSE seriesChunkCount(b, ls, Uvarint(b, ls.p))

\* Series with the number of labels k read at p
seriesLabelCount(b, p, k) ==
  IF k[2] < 1 THEN seriesResult("invalid size", << >>, << >>)
  ELSE seriesLabelsRead(b, readLabels(b, p + k[2], k[1]))

\* Series behind the length of the series data
seriesAt(b, p) == seriesLabelCount(b, p, Uvarint(b, p))

\* indexReader.Series
SeriesR(r, ref) == seriesAt(r.b, ref + Uvarint(r.b, ref)[2])

(***************************************************************************)
(* The index as a state machine: one writer on one file, then a reader on  *)
(* the closed file.                                                        *)
(***************************************************************************)

\* how many label indexes and postings lists a behaviour writes
MaxLabelIndexes == 2
MaxPostings == 2

La == <<97>>
Lb == <<98>>
V1 == <<49>>
V2 == <<50>>

Chunk(ref) == [MinTime |-> 1, MaxTime |-> 3, Ref |-> ref, Sum |-> <<1, 2, 3, 4>>]

\* the series handed to AddSeries
SeriesInputs ==
  { [ref |-> 2, lset |-> << [Name |-> La, Value |-> V1] >>, chunks |-> << Chunk(8) >>],
    [ref |-> 3, lset |-> << [Name |-> La, Value |-> V1], [Name |-> Lb, Value |-> V2] >>,
     chunks |-> << Chunk(8), [MinTime |-> -2, MaxTime |-> 0, Ref |-> 300, Sum |-> <<4, 3, 2, 1>>] >>] }

\* a series with other labels under the reference of one of SeriesInputs
DuplicateInputs ==
  { [ref |-> 2, lset |-> << [Name |-> Lb, Value |-> V1] >>, chunks |-> << >>] }

\* the label indexes handed to WriteLabelIndex: unsorted values, pairs, a short tuple
LabelIndexInputs ==
  { [names |-> << La >>, values |-> << V2, V1 >>],
    [names |-> << La, Lb >>, values |-> << V2, V1, V1, V2 >>],
    [names |-> << La, Lb >>, values |-> << V1 >>] }

\* the postings handed to WritePostings: descending, repeated and unknown refs
PostingsInputs ==
  { [name |-> La, value |-> V1, it |-> << 3, 2 >>],
    [name |-> Lb, value |-> V2, it |-> << 3, 3 >>],
    [name |-> La, value |-> V2, it |-> << 4 >>] }

noResult == result("nil", FALSE, 0, << >>, << >>, {})

IndexInit ==
  /\ iw = newIndexWriter
  /\ ir = noReader("nil")
  /\ iop = "none"
  /\ ires = noResult
  /\ igiven = << >>

\* a call of the writer that returned w1
Wrote(w1, name) ==
  /\ iw' = w1
  /\ iop' = name
  /\ UNCHANGED << ir, ires, igiven >>
  /\ UNCHANGED << walvars, cvars >>

AddSeries(s) ==
  /\ ~ir.open
  /\ Wrote(AddSeriesW([iw EXCEPT !.err = "nil"], s.ref, s.lset, s.chunks), "AddSeries")

WriteLabelIndex(x) ==
  /\ ~ir.open
  /\ Len(iw.labelIndexes) < MaxLabelIndexes
  /\ Wrote(WriteLabelIndexW([iw EXCEPT !.err = "nil"], x.names, x.values), "WriteLabelIndex")

\* a WritePostings call that returned w1
Posted(w1, x) ==
  /\ iw' = w1
  /\ iop' = "WritePostings"
  /\ igiven' = IF w1.err = "nil" THEN Append(igiven, x) ELSE igiven
  /\ UNCHANGED << ir, ires >>
  /\ UNCHANGED << walvars, cvars >>

WritePostings(x) ==
  /\ ~ir.open
  /\ Len(iw.postings) < MaxPostings
  /\ Posted(WritePostingsW([iw EXCEPT !.err = "nil"], x.name, x.value, x.it), x)

IndexClose ==
  /\ ~ir.open
  /\ Wrote(CloseW([iw EXCEPT !.err = "nil"]), "Close")

NewIndexReader ==
  /\ iw.closed
  /\ ~ir.open
  /\ ir' = newIndexReader(iw.f)
  /\ iop' = "newIndexReader"
  /\ UNCHANGED << iw, ires, igiven >>
  /\ UNCHANGED << walvars, cvars >>

\* the header bytes that an index file not written by this writer has in place of
\* the magic number and the format version: another last magic byte, another version
HeaderDamages == { [at |-> 4, byte |-> 1], [at |-> 5, byte |-> 2], [at |-> 5, byte |-> 0] }

\* newIndexReader on the closed file with one byte of its header replaced
OpenDamaged(d) ==
  /\ iw.closed
  /\ ~ir.open
  /\ ir' = newIndexReader([iw.f EXCEPT ![d.at] = d.byte])
  /\ iop' = "newIndexReader"
  /\ UNCHANGED << iw, ires, igiven >>
  /\ UNCHANGED << walvars, cvars >>

\* a query of the reader for key that returned res
Queried(res, key, name) ==
  /\ ires' = [res EXCEPT !.key = key]
  /\ iop' = name
  /\ UNCHANGED << iw, ir, igiven >>
  /\ UNCHANGED << walvars, cvars >>

LabelValues(names) ==
  /\ ir.open
  /\ Queried(LabelValuesR(ir, names), names, "LabelValues")

LabelIndices ==
  /\ ir.open
  /\ Queried(LabelIndicesR(ir), << >>, "LabelIndices")

Postings(name, value) ==
  /\ ir.open
  /\ Queried(PostingsR(ir, name, value), << name, value >>, "Postings")

\* Series on an offset that the last Postings call yielded
Series(ref) ==
  /\ ir.open
  /\ iop = "Postings"
  /\ \E i \in DOMAIN ires.list : ires.list[i] = ref
  /\ Queried(SeriesR(ir, ref), << ref >>, "Series")

\* how many bytes a behaviour hands to a writer that is close to the size limit
MaxWritten == 8

\* the buffers handed to indexWriter.write in one call: buf1 alone, or buf1 and buf2
WriteInputs ==
  { << <<1>> >>, << <<2, 2>>, <<3, 3, 3>> >>, << <<4, 4, 4, 4>>, <<5>> >> }

\* the positions of a writer that has written all but at most MaxWritten bytes of 4 GiB
NearLimit == { << 65535, 65536 - d >> : d \in 1..MaxWritten }

\* a writer at a position close to the limit: f holds the bytes handed to fbuf from then on
WriteInit ==
  /\ iw \in { [f |-> << >>, pos |-> p, err |-> "nil"] : p \in NearLimit }
  /\ ir = noReader("nil")
  /\ iop = "none"
  /\ ires = noResult
  /\ igiven = << >>

\* a call of indexWriter.write with the buffers bufs
IndexWrite(bufs) ==
  /\ Len(iw.f) < MaxWritten
  /\ iw' = writeBufs([iw EXCEPT !.err = "nil"], bufs, 1)
  /\ iop' = "write"
  /\ UNCHANGED << ir, ires, igiven >>
  /\ UNCHANGED << walvars, cvars >>

WriteNext == \E bufs \in WriteInputs : IndexWrite(bufs)

IndexNext ==
  \/ \E s \in SeriesInputs : AddSeries(s)
  \/ \E x \in LabelIndexInputs : WriteLabelIndex(x)
  \/ \E x \in PostingsInputs : WritePostings(x)
  \/ IndexClose
  \/ NewIndexReader
  \/ \E names \in { x.names : x \in LabelIndexInputs } : LabelValues(names)
  \/ LabelIndices
  \/ \E x \in PostingsInputs : Postings(x.name, x.value)
  \/ \E ref \in { ires.list[i] : i \in DOMAIN ires.list } : Series(ref)

\* the writer alone, with series added twice under one reference
WriterNext ==
  \/ \E s \in SeriesInputs \cup DuplicateInputs : AddSeries(s)
  \/ \E x \in LabelIndexInputs : WriteLabelIndex(x)
  \/ \E x \in PostingsInputs : WritePostings(x)
  \/ IndexClose

\* the writer, and newIndexReader on the files it closed and on files with another header
OpenNext ==
  \/ \E s \in SeriesInputs : AddSeries(s)
  \/ \E x \in LabelIndexInputs : WriteLabelIndex(x)
  \/ \E x \in PostingsInputs : WritePostings(x)
  \/ IndexClose
  \/ NewIndexReader
  \/ \E d \in HeaderDamages : OpenDamaged(d)

(***************************************************************************)
(* Properties of the index writer and reader.                              *)
(***************************************************************************)

\* the last WritePostings call for the keys key that returned nil, or 0
lastGiven(key) ==
  IF \E i \in DOMAIN igiven : << igiven[i].name, igiven[i].value >> = key
    THEN CHOOSE i \in DOMAIN igiven :
           /\ << igiven[i].name, igiven[i].value >> = key
           /\ \A j \in DOMAIN igiven : << igiven[j].name, igiven[j].value >> = key => j <= i
    ELSE 0

\* C7: the stage of the index writer never decreases, and a WriteLabelIndex call made
\* after the LabelIndex stage (after WritePostings or Close) or a WritePostings call made
\* after the Postings stage (after Close) returns an error, writes no bytes to the file
\* and leaves the stage unchanged.
C7_StageOnlyForward ==
  [][/\ iw'.stage >= iw.stage
     /\ (\/ iop' = "WriteLabelIndex" /\ iw.stage > idxStageLabelIndex
         \/ iop' = "WritePostings" /\ iw.stage > idxStagePostings)
        => (iw'.err # "nil" /\ iw'.f = iw.f /\ iw'.stage = iw.stage)]_vars

C7_Witness ==
  /\ iop = "WriteLabelIndex"
  /\ iw.err = "invalid stage"
  /\ iw.stage = idxStageDone
  /\ iw.closed
  /\ Len(iw.postings) >= 1
  /\ Len(iw.labelIndexes) >= 1

\* C8: an AddSeries call made after the writer has left the Populate stage returns an
\* error and leaves the series map and the symbols unchanged.
C8_LateAddSeriesFails ==
  [][(iop' = "AddSeries" /\ iw.stage # idxStagePopulate)
       => (iw'.err # "nil" /\ iw'.series = iw.series /\ iw'.symbols = iw.symbols)]_vars

\* no series was added after the Populate stage: every series has its offset
allPopulated == \A r \in DOMAIN iw.series : iw.series[r].offset # 0

\* C9: once a writer whose series were all added in the Populate stage is closed, whatever
\* stages it skipped, the file read back has the symbols, the series, the label index
\* offset table, the postings offset table and the TOC in this order, each with its TOC
\* offset set, and every label index written by WriteLabelIndex is found by LabelValues
\* and listed by LabelIndices.
C9_CloseWritesEverySection ==
  (ir.open /\ allPopulated) =>
    /\ ir.toc = iw.toc
    /\ 0 < ir.toc.symbols
    /\ ir.toc.symbols < ir.toc.series
    /\ ir.toc.series < ir.toc.labelIndicesTable
    /\ ir.toc.labelIndicesTable < ir.toc.postingsTable
    /\ ir.toc.postingsTable < Len(ir.b) - indexTOCLen
    /\ \A i \in DOMAIN iw.labelIndexes :
         /\ LabelValuesR(ir, iw.labelIndexes[i].keys).found
         /\ iw.labelIndexes[i].keys \in LabelIndicesR(ir).indices

RECURSIVE ascending(_, _)
\* the list s is strictly ascending from element i on
ascending(s, i) == i >= Len(s) \/ (s[i] < s[i + 1] /\ ascending(s, i + 1))

\* C10: whatever refs the iterator handed to WritePostings(name, value, it) yielded, in
\* whatever order, Postings(name, value) of the reader yields one offset for each of them,
\* in strictly ascending order.
C10_PostingsAscending ==
  (iop = "Postings" /\ lastGiven(ires.key) # 0) =>
    /\ ires.err = "nil"
    /\ ires.found
    /\ Len(ires.list) = Len(igiven[lastGiven(ires.key)].it)
    /\ ascending(ires.list, 1)

\* C11: every offset that Postings of a closed index yields is the start of the record
\* of a series added with AddSeries, in the series section: Series on it returns no error
\* and the labels of that series.
C11_PostingsReferToSeries ==
  iop = "Series" =>
    /\ ires.err = "nil"
    /\ ir.toc.series < ires.key[1]
    /\ \E r \in DOMAIN iw.series :
         iw.series[r].offset = ires.key[1] /\ iw.series[r].labels = ires.labels


\* C12: in whatever order AddSeries was called, the series records are written in
\* ascending order of the label sets: of two series of the writer that has left the
\* Populate stage, the one with the smaller label set has the smaller recorded offset.
C12_SeriesInLabelOrder ==
  iw.stage > idxStagePopulate =>
    \A r1 \in DOMAIN iw.series : \A r2 \in DOMAIN iw.series :
      labelsCompare(iw.series[r1].labels, iw.series[r2].labels, 1) < 0
        => iw.series[r1].offset < iw.series[r2].offset

(***************************************************************************)
(* Properties of the rotation and the syncing of the segments.             *)
(***************************************************************************)

\* the step is a Log* call that wrote an entry while a tail segment was open for writing
LogOnOpenTail == calls' = calls + 1 /\ Len(layout') = Len(layout) + 1 /\ cur # << >>

\* the entry that the step wrote is in the segment that was the tail, at the write cursor,
\* and no segment was created
Appended ==
  /\ layout'[Len(layout')].name = files[Len(files)].name
  /\ layout'[Len(layout')].off = curN
  /\ DOMAIN dir' = DOMAIN dir
  /\ Len(files') = Len(files)

\* the step created one segment, and the entry that it wrote is the first one of it
Rotated ==
  /\ Len(files') = Len(files) + 1
  /\ DOMAIN dir' = DOMAIN dir \cup {files'[Len(files')].name}
  /\ files'[Len(files')].name \notin DOMAIN dir
  /\ layout'[Len(layout')].name = files'[Len(files')].name
  /\ layout'[Len(layout')].off = 8

\* C13: with a tail open, the write cursor at most the segment size and an entry whose frame
\* is at most the segment size, the WAL rotates before writing when cursor plus frame
\* exceed the segment size, and then the entry is the first one of the new segment, at
\* offset 8; when they do not exceed it, no rotation happens.
C13_RotatesWhenCrossing ==
  [][(LogOnOpenTail /\ curN <= segmentSize /\ layout'[Len(layout')].sz <= segmentSize)
       => IF curN + layout'[Len(layout')].sz > segmentSize THEN Rotated ELSE Appended]_vars

C13_Witness ==
  /\ calls = 2 /\ Len(layout) = 2
  /\ layout[1].sz <= segmentSize /\ layout[2].sz <= segmentSize
  /\ 8 + layout[1].sz + layout[2].sz > segmentSize
  /\ layout[2].name # layout[1].name /\ layout[2].off = 8
  /\ Len(files) = 2 /\ files[1].closed /\ files[1].pos = 8 + layout[1].sz

\* C14 as stated: an entry that makes the current segment cross the segment size but fits
\* in one segment is written into the current segment, and no cut occurs.
C14_CrossingEntryStays ==
  [][(/\ LogOnOpenTail
      /\ layout'[Len(layout')].sz <= segmentSize
      /\ curN + layout'[Len(layout')].sz > segmentSize)
       => Appended]_vars

\* C14, amended: an entry that makes the current segment cross the segment size but fits
\* in one segment causes a cut: the buffered entries are flushed to the old tail, which is
\* truncated at the write cursor and closed, and the entry goes to a segment of its own.
C14_CrossingEntryCuts ==
  [][(/\ LogOnOpenTail
      /\ layout'[Len(layout')].sz <= segmentSize
      /\ curN + layout'[Len(layout')].sz > segmentSize)
       => /\ layout'[Len(layout')].name # files[Len(files)].name
          /\ files'[Len(files)].closed
          /\ Len(inodes'[files[Len(files)].ino]) = curN
          /\ curN' = 8 + layout'[Len(layout')].sz]_vars

C14_Witness ==
  /\ calls = 2 /\ Len(layout) = 2 /\ flushInterval > 0
  /\ layout[2].sz <= segmentSize
  /\ 8 + layout[1].sz + layout[2].sz > segmentSize
  /\ layout[2].name # layout[1].name
  /\ Len(inodes[dir[layout[1].name]]) = 8 + layout[1].sz
  /\ curN = 8 + layout[2].sz

entryAt(c, off, sz, et) ==
  \E e \in { walReaderEntry(c, off) } : e.kind = "ok" /\ e.pos = off + sz /\ e.et = et

\* the entry type that the call named name writes
typeOf(name) ==
  IF name = "LogSeries" THEN WALEntrySeries
  ELSE IF name = "LogSamples" THEN WALEntrySamples ELSE WALEntryDeletes

\* C16: with a flush interval <= 0, whenever LogSeries, LogSamples or LogDeletes returns
\* nil, the write buffer is empty, the segment file holds every byte of the entry, and an
\* fdatasync of that segment has made them durable.
C16_LogSyncsBeforeReturn ==
  [][(/\ calls' = calls + 1 /\ Len(layout') = Len(layout) + 1
      /\ flushInterval <= 0 /\ lastErr' = "nil")
       => /\ cur' = << <<>> >>
          /\ files'[Len(files')].pos = curN'
          /\ entryAt(inodes'[dir'[layout'[Len(layout')].name]], layout'[Len(layout')].off,
                     layout'[Len(layout')].sz, typeOf(op'))
          /\ dir'[layout'[Len(layout')].name] \in DOMAIN synced'
          /\ synced'[dir'[layout'[Len(layout')].name]]
               = inodes'[dir'[layout'[Len(layout')].name]]]_vars

C16_Witness ==
  /\ op \in {"LogSeries", "LogSamples", "LogDeletes"}
  /\ flushInterval <= 0 /\ lastErr = "nil" /\ calls = 2 /\ Len(layout) = 2
  /\ layout[2].name = layout[1].name
  /\ cur = << <<>> >>
  /\ dir[layout[2].name] \in DOMAIN synced
  /\ entryAt(synced[dir[layout[2].name]], layout[2].off, layout[2].sz, typeOf(op))

\* C20: after the replay truncated a corrupt tail, the next Log* call appends its entry to
\* that same tail segment at the truncated offset, and no segment is created for it.
C20_LogContinuesTruncatedTail ==
  [][(/\ op = "Read" /\ found # << >>
      /\ calls' = calls + 1 /\ Len(layout') = Len(layout) + 1)
       => /\ layout'[Len(layout')].name = found[1]
          /\ layout'[Len(layout')].off = found[2]
          /\ DOMAIN dir' = DOMAIN dir]_vars

(***************************************************************************)
(* The goroutines of one WAL: the flusher that OpenSegmentWAL starts, a    *)
(* caller of Log*, a caller of Close.  A call that takes w.mtx is one step *)
(* to take it and one step for what it does while holding it.              *)
(***************************************************************************)

NoTruncation == [pc |-> "idle", m |-> 0, keep |-> << >>, cand |-> << >>]
NoReader == [pc |-> "idle", mint |-> 0, cur |-> 1, snapshot |-> {}, visited |-> {}]

\* the goroutines that call Log*
Gs == {1, 2}

NoCall == [name |-> "none", recs |-> << >>]

\* no Log* call is running: n counts the calls started, crc is what w.crc32 was given
\* since its Reset, g[i] is goroutine i: where it is, its call, the index of its loop over
\* the samples, the tail its Sync took
NoWriters ==
  [n |-> 0, crc |-> << >>,
   g |-> [i \in Gs |-> [pc |-> "idle", call |-> NoCall, i |-> 0, tail |-> 0]]]

ConcInit ==
  /\ mtx = "free" /\ stopc = FALSE /\ donec = FALSE
  /\ run = [pc |-> "none", tail |-> 0, err |-> "nil", failed |-> FALSE]
  /\ closer = "idle" /\ logger = "idle"
  /\ trn = NoTruncation
  /\ rdr = NoReader
  /\ lgs = NoWriters

\* OpenSegmentWAL with its go w.run(flushInterval)
GoOpen ==
  /\ phase = "closed" /\ run.pc = "none"
  /\ Opened(initSegments(dir, inodes))
  /\ run' = [run EXCEPT !.pc = "select"]
  /\ UNCHANGED << mtx, stopc, donec, closer, logger, trn, rdr, lgs >>

\* w.mtx.Lock() of SegmentWAL.entry
LogLock ==
  /\ phase = "ready" /\ logger = "idle" /\ calls < MaxLog
  /\ mtx = "free"
  /\ mtx' = "entry" /\ logger' = "entry"
  /\ UNCHANGED << walvars, ivars, stopc, donec, run, closer, trn, rdr, lgs >>

\* LogSeries from the lock of entry on; with a flush interval > 0 it does not sync
LogEntry(series) ==
  /\ logger = "entry" /\ flushInterval > 0
  /\ \E r \in { encodeSeriesW(W, series) } :
       Logged(r, "LogSeries", Len(series) > 0,
              [et |-> "series", recs |-> series], 10 + Len(encodeSeries(series)))
  /\ mtx' = "free" /\ logger' = "idle"
  /\ UNCHANGED << stopc, donec, run, closer, trn, rdr, lgs >>

\* w.run: the select takes the tick and calls w.Sync()
RunTick ==
  /\ run.pc = "select" /\ flushInterval > 0
  /\ run' = [run EXCEPT !.pc = "Sync"]
  /\ UNCHANGED << walvars, ivars, mtx, stopc, donec, closer, logger, trn, rdr, lgs >>

\* w.run: the select takes the closed w.stopc; the deferred close(w.donec) runs
RunStop ==
  /\ run.pc = "select" /\ stopc
  /\ run' = [run EXCEPT !.pc = "exited"]
  /\ donec' = TRUE
  /\ UNCHANGED << walvars, ivars, mtx, stopc, closer, logger, trn, rdr, lgs >>

\* w.mtx.Lock() of SegmentWAL.Sync
SyncLock ==
  /\ run.pc = "Sync"
  /\ mtx = "free"
  /\ mtx' = "Sync"
  /\ run' = [run EXCEPT !.pc = "flush"]
  /\ UNCHANGED << walvars, ivars, stopc, donec, closer, logger, trn, rdr, lgs >>

\* SegmentWAL.Sync under the mutex once its flush returned r: the tail is taken, or
\* Sync returns the error of the flush
SyncFlushed(r) ==
  /\ inodes' = r.inodes /\ files' = r.files /\ cur' = r.cur
  /\ op' = "Sync"
  /\ run' = IF r.err # "nil"
              THEN [run EXCEPT !.pc = "select", !.err = r.err, !.failed = TRUE]
              ELSE [run EXCEPT !.pc = "Fdatasync",
                               !.tail = IF Len(r.files) = 0 THEN 0
                                        ELSE r.files[Len(r.files)].ino]
  /\ mtx' = "free"
  /\ UNCHANGED << dir, curN, maxt, flushInterval, phase, lastErr, mint, delivered, found,
                  dropped, logged, layout, calls, damage, trunc, synced >>
  /\ UNCHANGED << ivars, stopc, donec, closer, logger, trn, rdr, lgs >>

SyncFlush ==
  /\ run.pc = "flush"
  /\ \E r \in { flush(W) } : SyncFlushed(r)

\* the file that the flusher's Sync took as the tail is open in w.files
tailOpen == \E i \in DOMAIN files : files[i].ino = run.tail /\ ~files[i].closed

\* a flusher that would return from w.run when its Sync fails
SyncFdatasyncOrExit ==
  /\ run.pc = "Fdatasync"
  /\ synced' = IF tailOpen THEN durable(W, run.tail).synced ELSE synced
  /\ run' = IF tailOpen THEN [run EXCEPT !.pc = "select", !.tail = 0, !.err = "nil"]
            ELSE [run EXCEPT !.pc = "exited", !.tail = 0, !.err = "bad file descriptor",
                             !.failed = TRUE]
  /\ donec' = (donec \/ ~tailOpen)
  /\ op' = "Fdatasync"
  /\ UNCHANGED << dir, inodes, files, cur, curN, maxt, flushInterval, phase, lastErr, mint,
                  delivered, found, dropped, logged, layout, calls, damage, trunc >>
  /\ UNCHANGED << ivars, mtx, stopc, closer, logger, trn, rdr, lgs >>

\* fileutil.Fdatasync(tail) of SegmentWAL.Sync, outside the mutex; w.run logs its error
\* and goes on
SyncFdatasync ==
  /\ run.pc = "Fdatasync"
  /\ synced' = IF tailOpen THEN durable(W, run.tail).synced ELSE synced
  /\ run' = IF tailOpen THEN [run EXCEPT !.pc = "select", !.tail = 0, !.err = "nil"]
            ELSE [run EXCEPT !.pc = "select", !.tail = 0, !.err = "bad file descriptor",
                             !.failed = TRUE]
  /\ op' = "Fdatasync"
  /\ UNCHANGED << dir, inodes, files, cur, curN, maxt, flushInterval, phase, lastErr, mint,
                  delivered, found, dropped, logged, layout, calls, damage, trunc >>
  /\ UNCHANGED << ivars, mtx, stopc, donec, closer, logger, trn, rdr, lgs >>

\* close(w.stopc) of SegmentWAL.Close
CloseStop ==
  /\ phase = "ready" /\ closer = "idle"
  /\ stopc' = TRUE
  /\ closer' = "wait"
  /\ UNCHANGED << walvars, ivars, mtx, donec, run, logger, trn, rdr, lgs >>

\* a Close that would go on without waiting for the flusher
CloseWithoutWait ==
  /\ closer = "wait"
  /\ closer' = "lock"
  /\ UNCHANGED << walvars, ivars, mtx, stopc, donec, run, logger, trn, rdr, lgs >>

\* <-w.donec of SegmentWAL.Close
CloseWait ==
  /\ closer = "wait" /\ donec
  /\ closer' = "lock"
  /\ UNCHANGED << walvars, ivars, mtx, stopc, donec, run, logger, trn, rdr, lgs >>

\* w.mtx.Lock() of SegmentWAL.Close
CloseLock ==
  /\ closer = "lock"
  /\ mtx = "free"
  /\ mtx' = "Close" /\ closer' = "sync"
  /\ UNCHANGED << walvars, ivars, stopc, donec, run, logger, trn, rdr, lgs >>

\* SegmentWAL.Close under the mutex: sync, the tail closed, the deferred Unlock
CloseSync ==
  /\ closer = "sync"
  /\ \E r \in { sync(W) } : Closed(r)
  /\ mtx' = "free" /\ closer' = "returned"
  /\ UNCHANGED << stopc, donec, run, logger, trn, rdr, lgs >>

CloseNext ==
  \/ GoOpen
  \/ \E m \in Mints : ReaderRead(m)
  \/ LogLock
  \/ \E b \in SeriesBatches : LogEntry(b)
  \/ RunTick
  \/ RunStop
  \/ SyncLock
  \/ SyncFlush
  \/ SyncFdatasync
  \/ CloseStop
  \/ CloseWait
  \/ CloseLock
  \/ CloseSync

\* the step of LogEntry, told by what it does to the logger: entry returns
LogReturns == logger = "entry" /\ logger' = "idle"

\* the Go scheduler runs every goroutine that can take a step; a select with several
\* ready cases picks one at random, so the closed w.stopc is taken after finitely many ticks
CloseFairness ==
  /\ WF_logger(LogReturns)
  /\ WF_vars(SyncLock) /\ WF_vars(SyncFlush) /\ WF_vars(SyncFdatasync)
  /\ SF_vars(RunStop)
  /\ WF_vars(CloseWait) /\ WF_vars(CloseLock) /\ WF_vars(CloseSync)

\* the ticker of w.run fires again and again until the deferred ticker.Stop()
FlushFairness == CloseFairness /\ WF_vars(RunTick)

(***************************************************************************)
(* Truncate and a reader next to the Log* calls.  Neither takes w.mtx:     *)
(* Truncate is the step that collects delFiles from w.files and the step   *)
(* that rewrites, renames and removes them; a reader is a step per call    *)
(* of next.  The Log* calls and the flusher's Sync, which hold the mutex   *)
(* for what they do to the WAL, are one step each.                         *)
(***************************************************************************)

\* the first loop of Truncate(m, keep) over w.files; with no candidate it returns nil
TruncateScan(m, keep) ==
  /\ phase = "ready" /\ trn.pc = "idle"
  /\ trn' = [pc |-> IF candidates(files, m, 1) = << >> THEN "done" ELSE "scanned",
             m |-> m, keep |-> keep, cand |-> candidates(files, m, 1)]
  /\ UNCHANGED << walvars, ivars, mtx, stopc, donec, run, closer, logger, rdr, lgs >>

\* Truncate from tempWAL on: the candidates read, the tmp file written and renamed over
\* w.files[0], the other candidates removed
TruncateRewrite ==
  /\ trn.pc = "scanned"
  /\ \E r \in { truncateCandidates(W, trn.cand, trn.keep) } :
       Truncated(r, trn.m, trn.keep, trn.cand)
  /\ trn' = [trn EXCEPT !.pc = "done"]
  /\ UNCHANGED << mtx, stopc, donec, run, closer, logger, rdr, lgs >>

\* w.Reader(m) while the WAL is written to
NewReader(m) ==
  /\ phase = "ready" /\ rdr.pc = "idle"
  /\ rdr' = [pc |-> "reading", mint |-> m, cur |-> 1,
             snapshot |-> { files[i].name : i \in DOMAIN files }, visited |-> {}]
  /\ UNCHANGED << walvars, ivars, mtx, stopc, donec, run, closer, logger, trn, lgs >>

\* one turn of the loop of Read once next and the callback ended in the reader state r:
\* r.wal.files are w.files, the handles are those of the writer
ReadStep(r) ==
  /\ files' = [i \in 1..Len(r.idx) |-> r.files[r.idx[i]]]
  /\ dropped' = [i \in 1..(Len(r.files) - Len(r.idx)) |-> r.files[Len(r.idx) + i]]
  /\ dir' = r.dir
  /\ delivered' = delivered \o r.out
  /\ found' = r.corrupt
  /\ lastErr' = r.err
  /\ op' = "next"
  /\ rdr' = [rdr EXCEPT !.pc = IF r.ok THEN "reading" ELSE "done",
                        !.cur = r.cur,
                        !.visited = @ \cup { files[i].name :
                                             i \in { k \in rdr.cur..r.cur :
                                                     k <= Len(files) /\ ~files[k].closed } }]
  /\ UNCHANGED << inodes, cur, curN, maxt, flushInterval, phase, mint, logged, layout, calls,
                  damage, trunc, synced >>
  /\ UNCHANGED << ivars, mtx, stopc, donec, run, closer, logger, trn, lgs >>

\* walReader.next and the body of the loop of Read
ReaderNext ==
  /\ rdr.pc = "reading"
  /\ \E r \in { dispatch(next([newWALReader(dir, inodes, files, [i \in 1..Len(files) |-> i],
                                            rdr.mint) EXCEPT !.cur = rdr.cur])) } :
       ReadStep(r)

RaceNext ==
  \/ OpenSegmentWAL
  \/ \E m \in Mints : ReaderRead(m)
  \/ \E b \in SeriesBatches : LogSeries(b)
  \/ \E b \in SampleBatches : LogSamples(b)
  \/ Tick
  \/ \E m \in TruncateMints, keep \in Keeps : TruncateScan(m, keep)
  \/ TruncateRewrite
  \/ \E m \in Mints : NewReader(m)
  \/ ReaderNext

\* an entry is damaged on disk in a behaviour without a reader next to the writer (such
\* a reader moves the write position, see C19, and the entries are not where they were
\* logged)
CorruptOnDisk(k, kind) ==
  /\ rdr.pc = "idle"
  /\ Corrupt(k, kind)

\* w.Reader(0) next to the writer, in a behaviour without damage from outside
ReaderBesideWriter ==
  /\ damage.kind = "none"
  /\ NewReader(0)

\* a reader next to the Log* calls, and the replay of a damaged directory
ReaderSpecNext ==
  \/ OpenSegmentWAL
  \/ ReaderRead(0)
  \/ \E b \in { << S(1) >>, << S(3), S(2) >> } : LogSeries(b)
  \/ Close
  \/ \E k \in 1..Len(logged), kind \in CorruptKinds : CorruptOnDisk(k, kind)
  \/ ReaderBesideWriter
  \/ ReaderNext

(***************************************************************************)
(* Segment headers: a segment whose header was damaged while the WAL was   *)
(* closed, and a process that stops inside a rotation (SegmentWAL.cut).    *)
(***************************************************************************)

HeaderKinds == { "hempty", "hshort", "hmagic", "hformat" }

\* the content c of a segment with its header damaged
DamagedHeader(c, kind) ==
  CASE kind = "hempty"  -> << >>
    [] kind = "hshort"  -> SubSeq(c, 1, 7)
    [] kind = "hmagic"  -> [c EXCEPT ![4] = FlipBit(@)]
    [] kind = "hformat" -> [c EXCEPT ![5] = 2]

\* the header of segment n is damaged on disk
DamageHeader(n, kind) ==
  /\ phase = "closed" /\ damage.kind = "none"
  /\ n \in DOMAIN dir
  /\ inodes' = [inodes EXCEPT ![dir[n]] = DamagedHeader(@, kind)]
  /\ damage' = [kind |-> kind, name |-> n, off |-> 0, healed |-> FALSE]
  /\ op' = "DamageHeader"
  /\ UNCHANGED << dir, files, cur, curN, maxt, flushInterval, phase, lastErr, mint,
                  delivered, found, dropped, logged, layout, calls, trunc, synced >>
  /\ UNCHANGED << ivars, cvars >>

\* the steps of SegmentWAL.cut after which the process can stop: the old tail closed,
\* the new file created, preallocated (and the directory synced), its header written
StopKinds == { "closed", "created", "preallocated", "header" }

\* what os.Create, fileutil.Preallocate and f.Write(metab) have made of the new segment
\* at the step
segmentAt(step) ==
  CASE step = "created"      -> << >>
    [] step = "preallocated" -> Zeros(segmentSize)
    [] step = "header"       -> WriteAt(Zeros(segmentSize), 0, metab)

\* SegmentWAL.cut up to the step, s1 being the writer after the old tail was closed
cutUpTo(s1, step) ==
  IF s1.err # "nil" \/ step = "closed" THEN s1
  ELSE [s1 EXCEPT
         !.dir    = [m \in DOMAIN s1.dir \cup {nextSequenceFile(s1.dir)} |->
                      IF m \in DOMAIN s1.dir THEN s1.dir[m] ELSE Len(s1.inodes) + 1],
         !.inodes = Append(s1.inodes, segmentAt(step))]

\* the condition of SegmentWAL.entry for a cut before an entry of frame size sz
cuts(s, sz) ==
  \/ s.cur = << >>
  \/ s.curN > segmentSize
  \/ (s.curN + sz > segmentSize /\ sz <= segmentSize)

\* the process has stopped inside cut and left the directory as r has it
Stopped(r, step) ==
  /\ r.err = "nil"
  /\ dir' = r.dir /\ inodes' = r.inodes /\ synced' = r.synced
  /\ files' = << >> /\ cur' = << >> /\ curN' = 0 /\ maxt' = 0
  /\ phase' = "closed"
  /\ op' = "Stop" /\ lastErr' = "nil"
  /\ damage' = [kind |-> step, name |-> nextSequenceFile(dir), off |-> 0, healed |-> FALSE]
  /\ mint' = 0 /\ delivered' = << >> /\ found' = << >> /\ dropped' = << >>
  /\ UNCHANGED << flushInterval, logged, layout, calls, trunc >>
  /\ UNCHANGED << ivars, cvars >>

\* LogSeries(series) rotates and the process stops inside cut after the step
StopInCut(series, step) ==
  /\ phase = "ready" /\ calls < MaxLog /\ damage.kind = "none"
  /\ cuts(W, 10 + Len(encodeSeries(series)))
  /\ \E r \in { cutUpTo(IF Len(files) = 0 THEN W ELSE closeTail(sync(W)), step) } :
       Stopped(r, step)

StopNext ==
  \/ OpenSegmentWAL
  \/ \E m \in Mints : ReaderRead(m)
  \/ \E b \in SeriesBatches : LogSeries(b)
  \/ Tick
  \/ Close
  \/ \E n \in DOMAIN dir, kind \in HeaderKinds : DamageHeader(n, kind)
  \/ \E b \in SeriesBatches, step \in StopKinds : StopInCut(b, step)

(***************************************************************************)
(* Several goroutines calling Log* side by side.  encodeSamples writes     *)
(* w.maxt before entry takes w.mtx; entry is the step that takes the       *)
(* mutex, the step up to the payload (cut, w.crc32.Reset, header and       *)
(* payload written through the MultiWriter) and the step from the checksum *)
(* to the deferred Unlock; with a flush interval <= 0 the call goes on     *)
(* with Sync: the lock, the flush that takes the tail and unlocks, the     *)
(* fdatasync outside the mutex.                                            *)
(***************************************************************************)

\* the calls the goroutines make
LogCalls ==
  { [name |-> "LogSeries",  recs |-> << S(1) >>],
    [name |-> "LogSamples", recs |-> << Smp(3, 3, 1), Smp(1, 1, 2) >>],
    [name |-> "LogSamples", recs |-> << Smp(2, 1, 5) >>],
    [name |-> "LogDeletes", recs |-> << >>] }

\* the payload that encodeSeries, encodeSamples or encodeDeletes builds for the call c
payloadOf(c) ==
  IF c.name = "LogSeries" THEN encodeSeries(c.recs)
  ELSE IF c.name = "LogSamples" THEN samplesPayload(c.recs)
  ELSE deletesPayload(c.recs, 1)

\* the entry the call c is to write, as a replay delivers it
entryOf(c) ==
  IF c.name = "LogSeries" THEN [et |-> "series", recs |-> c.recs]
  ELSE IF c.name = "LogSamples" THEN [et |-> "samples", recs |-> c.recs]
  ELSE [et |-> "deletes", recs |-> flatten(c.recs, 1)]

\* the flag of the entry that the call named name writes
flagOf(name) ==
  IF name = "LogSeries" THEN walSeriesSimple
  ELSE IF name = "LogSamples" THEN walSamplesSimple ELSE walDeletesSimple

\* goroutine g calls LogSeries, LogSamples or LogDeletes; encodeSamples starts with
\* w.maxt = 0, outside the mutex
LogCall(g, c) ==
  /\ phase = "ready" /\ lgs.g[g].pc = "idle" /\ lgs.n < MaxLog
  /\ lgs' = [lgs EXCEPT !.n = @ + 1,
                        !.g[g] = [pc |-> IF c.name = "LogSamples" THEN "maxt" ELSE "lock",
                                  call |-> c, i |-> 1, tail |-> 0]]
  /\ maxt' = IF c.name = "LogSamples" THEN 0 ELSE maxt
  /\ UNCHANGED << dir, inodes, files, cur, curN, flushInterval, phase, op, lastErr, mint,
                  delivered, found, dropped, logged, layout, calls, damage, trunc, synced >>
  /\ UNCHANGED << ivars, mtx, stopc, donec, run, closer, logger, trn, rdr >>

\* one turn of the loop of encodeSamples: w.maxt is raised to the sample's T
MaxtStep(g) ==
  /\ lgs.g[g].pc = "maxt"
  /\ maxt' = IF maxt < lgs.g[g].call.recs[lgs.g[g].i].T
               THEN lgs.g[g].call.recs[lgs.g[g].i].T ELSE maxt
  /\ lgs' = [lgs EXCEPT !.g[g].i = @ + 1,
                        !.g[g].pc = IF lgs.g[g].i = Len(lgs.g[g].call.recs)
                                      THEN "lock" ELSE "maxt"]
  /\ UNCHANGED << dir, inodes, files, cur, curN, flushInterval, phase, op, lastErr, mint,
                  delivered, found, dropped, logged, layout, calls, damage, trunc, synced >>
  /\ UNCHANGED << ivars, mtx, stopc, donec, run, closer, logger, trn, rdr >>

\* an entry that would go on without the mutex
EntryEnter(g) ==
  /\ lgs.g[g].pc = "lock"
  /\ mtx' = "entry"
  /\ lgs' = [lgs EXCEPT !.g[g].pc = "head"]
  /\ UNCHANGED << walvars, ivars, stopc, donec, run, closer, logger, trn, rdr >>

\* w.mtx.Lock() of SegmentWAL.entry
EntryLock(g) ==
  /\ lgs.g[g].pc = "lock"
  /\ mtx = "free"
  /\ mtx' = "entry"
  /\ lgs' = [lgs EXCEPT !.g[g].pc = "head"]
  /\ UNCHANGED << walvars, ivars, stopc, donec, run, closer, logger, trn, rdr >>

\* entry up to the payload: s1 is the writer after the cut, if there was one, hb the
\* header and the payload written to w.crc32 and w.cur; an error of cut is returned
Headed(g, s1, hb) ==
  IF s1.err # "nil"
    THEN /\ Logged(s1, lgs.g[g].call.name, FALSE, entryOf(lgs.g[g].call), 0)
         /\ mtx' = "free"
         /\ lgs' = [lgs EXCEPT !.g[g].pc = "idle"]
         /\ UNCHANGED << stopc, donec, run, closer, logger, trn, rdr >>
    ELSE /\ dir' = s1.dir /\ inodes' = s1.inodes /\ files' = s1.files
         /\ synced' = s1.synced /\ curN' = s1.curN
         /\ cur' = << s1.cur[1] \o hb >>
         /\ lgs' = [lgs EXCEPT !.crc = hb, !.g[g].pc = "sum"]
         /\ op' = "entry"
         /\ UNCHANGED << maxt, flushInterval, phase, lastErr, mint, delivered, found,
                         dropped, logged, layout, calls, damage, trunc >>
         /\ UNCHANGED << ivars, mtx, stopc, donec, run, closer, logger, trn, rdr >>

\* entry of goroutine g for the payload buf
EntryPayload(g, buf) ==
  \E s1 \in { IF cuts(W, 10 + Len(buf)) THEN cut(W) ELSE W } :
    Headed(g, s1, << typeOf(lgs.g[g].call.name), flagOf(lgs.g[g].call.name) >> \o BE32(Len(buf)) \o buf)

\* SegmentWAL.entry from the lock to wr.Write(buf)
EntryHead(g) ==
  /\ lgs.g[g].pc = "head"
  /\ \E buf \in { payloadOf(lgs.g[g].call) } : EntryPayload(g, buf)

\* SegmentWAL.entry from the checksum on: w.cur.Write(w.crc32.Sum(nil)), w.curN, the
\* tail's maxt, the deferred Unlock
EntryTail(g) ==
  /\ lgs.g[g].pc = "sum"
  /\ \E r \in { [W EXCEPT !.cur   = << cur[1] \o crc32Sum(lgs.crc) >>,
                         !.curN  = @ + Len(lgs.crc) + 4,
                         !.files = IF Len(files) > 0 /\ files[Len(files)].maxt < maxt
                                     THEN [files EXCEPT ![Len(files)].maxt = maxt]
                                     ELSE files] } :
       Logged(r, lgs.g[g].call.name, TRUE, entryOf(lgs.g[g].call),
              10 + Len(payloadOf(lgs.g[g].call)))
  /\ mtx' = "free"
  /\ lgs' = [lgs EXCEPT !.g[g].pc = IF flushInterval <= 0 THEN "Sync" ELSE "idle"]
  /\ UNCHANGED << stopc, donec, run, closer, logger, trn, rdr >>

\* w.mtx.Lock() of the Sync of a Log* call
LogSyncLock(g) ==
  /\ lgs.g[g].pc = "Sync"
  /\ mtx = "free"
  /\ mtx' = "Sync"
  /\ lgs' = [lgs EXCEPT !.g[g].pc = "flush"]
  /\ UNCHANGED << walvars, ivars, stopc, donec, run, closer, logger, trn, rdr >>

\* the Sync of a Log* call under the mutex once its flush returned r
LogSyncFlushed(g, r) ==
  /\ inodes' = r.inodes /\ files' = r.files /\ cur' = r.cur
  /\ op' = "Sync"
  /\ lastErr' = r.err
  /\ lgs' = IF r.err # "nil" THEN [lgs EXCEPT !.g[g].pc = "idle"]
            ELSE [lgs EXCEPT !.g[g].pc = "Fdatasync",
                             !.g[g].tail = IF Len(r.files) = 0 THEN 0
                                           ELSE r.files[Len(r.files)].ino]
  /\ mtx' = "free"
  /\ UNCHANGED << dir, curN, maxt, flushInterval, phase, mint, delivered, found,
                  dropped, logged, layout, calls, damage, trunc, synced >>
  /\ UNCHANGED << ivars, stopc, donec, run, closer, logger, trn, rdr >>

LogSyncFlush(g) ==
  /\ lgs.g[g].pc = "flush"
  /\ \E r \in { flush(W) } : LogSyncFlushed(g, r)

\* the file ino is open in w.files
openFile(ino) == \E i \in DOMAIN files : files[i].ino = ino /\ ~files[i].closed

\* fileutil.Fdatasync(tail) of the Sync of a Log* call, outside the mutex; its error is
\* what the call returns
LogSyncFdatasync(g) ==
  /\ lgs.g[g].pc = "Fdatasync"
  /\ synced' = IF openFile(lgs.g[g].tail) THEN durable(W, lgs.g[g].tail).synced ELSE synced
  /\ lastErr' = IF openFile(lgs.g[g].tail) THEN "nil" ELSE "bad file descriptor"
  /\ lgs' = [lgs EXCEPT !.g[g].pc = "idle", !.g[g].tail = 0]
  /\ op' = "Fdatasync"
  /\ UNCHANGED << dir, inodes, files, cur, curN, maxt, flushInterval, phase, mint,
                  delivered, found, dropped, logged, layout, calls, damage, trunc >>
  /\ UNCHANGED << ivars, mtx, stopc, donec, run, closer, logger, trn, rdr >>

WritersNext ==
  \/ GoOpen
  \/ ReaderRead(0)
  \/ \E g \in Gs, c \in LogCalls : LogCall(g, c)
  \/ \E g \in Gs : MaxtStep(g)
  \/ \E g \in Gs : EntryLock(g)
  \/ \E g \in Gs : EntryHead(g)
  \/ \E g \in Gs : EntryTail(g)
  \/ \E g \in Gs : LogSyncLock(g)
  \/ \E g \in Gs : LogSyncFlush(g)
  \/ \E g \in Gs : LogSyncFdatasync(g)
  \/ RunTick
  \/ SyncLock
  \/ SyncFlush
  \/ SyncFdatasync

(***************************************************************************)
(* Properties of the goroutines of the WAL.                                *)
(***************************************************************************)

\* C17: Close returns only after the flusher has taken the stop signal and exited, so no
\* background Sync runs after Close has returned; Close does not hold the mutex while it
\* waits for the flusher, and every Close that was called returns.
C17_CloseWaitsForFlusher ==
  /\ [](closer = "returned" => (stopc /\ donec /\ run.pc = "exited"))
  /\ [](closer = "wait" => mtx # "Close")
  /\ [][closer = "returned" => run' = run]_vars
  /\ (closer = "wait" ~> closer = "returned")

\* Close has returned after the flusher synced an entry and exited
C17_Witness ==
  /\ closer = "returned" /\ op = "Close" /\ phase = "closed"
  /\ run.pc = "exited" /\ donec
  /\ Len(layout) >= 1
  /\ layout[1].name \in DOMAIN dir /\ dir[layout[1].name] \in DOMAIN synced

\* C18: Truncate runs under the WAL mutex: between its scan of the candidate segments and
\* its rename and removals, no Log* call appends or rotates and no flush empties the
\* write buffer.
C18_TruncateExcludesWriters ==
  [][~(/\ trn.pc = "scanned" /\ trn'.pc = "scanned"
       /\ (calls' # calls \/ cur' # cur \/ Len(files') # Len(files)))]_vars

\* the entry type of the logged entry e
typeNamed(e) ==
  IF e.et = "series" THEN WALEntrySeries
  ELSE IF e.et = "samples" THEN WALEntrySamples ELSE WALEntryDeletes

\* every entry logged so far is in its segment file where the writer put it
placed ==
  \A k \in DOMAIN layout :
    /\ layout[k].name \in DOMAIN dir
    /\ entryAt(inodes[dir[layout[k].name]], layout[k].off, layout[k].sz, typeNamed(logged[k]))

\* C19: a reader works on the segment list as it was when Reader() was called, so it
\* visits no segment that a rotation created later; and a reader next to the writer
\* changes neither what the writer appends nor where: once the write buffer is flushed,
\* every entry is in its segment at the offset of the write cursor it was logged at.
C19_ReaderLeavesWriterAlone ==
  (rdr.pc # "idle" /\ trn.pc = "idle")
    => /\ rdr.visited \subseteq rdr.snapshot
       /\ cur = << <<>> >> => placed

(***************************************************************************)
(* Properties of the error handling of the WAL and of the index.           *)
(***************************************************************************)

\* C21: on a fresh directory, OpenSegmentWAL and then Close, with no Log* call and so no
\* segment, returns no error, and Reader(0).Read after reopening the directory delivers
\* no entry and returns no error.
C21_CloseOfEmptyWAL ==
  (calls = 0 /\ DOMAIN dir = {})
    => /\ op = "Close" => lastErr = "nil"
       /\ op = "Read" => (lastErr = "nil" /\ delivered = << >>)

\* C22: AddSeries with a reference that was already added returns an error and leaves the
\* writer as it was: the first series is kept and no symbol of the rejected label set is added.
C22_DuplicateRefRejected ==
  [][\A s \in SeriesInputs \cup DuplicateInputs :
       (s.ref \in DOMAIN iw.series /\ AddSeries(s))
         => /\ iw'.err # "nil"
            /\ iw'.series = iw.series
            /\ iw'.symbols = iw.symbols
            /\ iw'.f = iw.f]_vars

\* a second series under reference 2 was rejected, and its label name is no symbol
C22_Witness ==
  /\ iop = "AddSeries"
  /\ iw.err = "already added"
  /\ 2 \in DOMAIN iw.series
  /\ (Lb \notin DOMAIN iw.symbols \/ La \notin DOMAIN iw.symbols)

\* the postings x name a reference that no AddSeries call of any behaviour adds
neverAdded(x) == \E i \in DOMAIN x.it : x.it[i] \notin { s.ref : s \in SeriesInputs }

\* the writer has an entry for the pair of x in its postings offset table
recordedPair(w, x) == \E i \in DOMAIN w.postings : w.postings[i].keys = << x.name, x.value >>

\* C23: WritePostings whose iterator yields a reference that was never added returns an
\* error, writes no bytes after the stage transition and records no entry for (name, value),
\* so that the postings offset table of the closed index has no entry for that pair.
C23_UnknownRefLeavesNoEntry ==
  /\ [][\A x \in PostingsInputs :
          (neverAdded(x) /\ WritePostings(x))
            => /\ iw'.err # "nil"
               /\ iw'.f = ensureStage([iw EXCEPT !.err = "nil"], idxStagePostings).f
               /\ ~recordedPair(iw', x)]_vars
  /\ [](ir.open => \A x \in PostingsInputs :
                     neverAdded(x) => ~PostingsR(ir, x.name, x.value).found)

RECURSIVE symbolsFrom(_, _, _)
\* the k strings of a symbols section that go on at p
symbolsFrom(b, p, k) ==
  IF k = 0 THEN << >>
  ELSE LET l == Uvarint(b, p)
       IN  << SubSeq(b, p + l[2] + 1, p + l[2] + l[1]) >> \o symbolsFrom(b, p + l[2] + l[1], k - 1)

\* the strings of the symbols section at off: the count, the length, then the strings
symbolsSection(b, off) == symbolsFrom(b, off + 8, Uint32At(b, off))

\* the names and values of the series the writer holds
addedSymbols == UNION { symbolsOf(iw.series[r].labels) : r \in DOMAIN iw.series }

\* C24: the symbols section of a closed index holds exactly the distinct label names and
\* values passed to AddSeries, each once and in ascending order, and lookupSymbol at the
\* offset that the writer recorded for one of them returns it.
C24_SymbolsRoundTrip ==
  ir.open =>
    /\ symbolsSection(ir.b, ir.toc.symbols) = sortStrings(addedSymbols)
    /\ \A s \in addedSymbols :
         lookupSymbol(ir.b, symbolOf(iw.symbols, s)) = [s |-> s, err |-> "nil"]

RECURSIVE offsetsFrom(_, _, _)
\* the offsets of the k strings of a symbols section that go on at p
offsetsFrom(b, p, k) ==
  IF k = 0 THEN {}
  ELSE LET l == Uvarint(b, p) IN {p} \cup offsetsFrom(b, p + l[2] + l[1], k - 1)

\* the offsets of the strings of the symbols section at off
symbolOffsets(b, off) == offsetsFrom(b, off + 8, Uint32At(b, off))

\* the symbol references of the label index written at off: the length, the tuple size,
\* then one reference of four bytes for each value
labelIndexRefs(b, off) ==
  LET l == Uvarint(b, off)
      k == Uvarint(b, off + l[2])
  IN  bigEndianPostings(SubSeq(b, off + l[2] + k[2] + 1, off + l[2] + l[1]))

RECURSIVE labelRefsFrom(_, _, _)
\* the k symbol references of a series record that go on at p
labelRefsFrom(b, p, k) ==
  IF k = 0 THEN {}
  ELSE LET o == Uvarint(b, p) IN {o[1]} \cup labelRefsFrom(b, p + o[2], k - 1)

\* the symbol references of the series record at off: the length, the number of labels,
\* then a name and a value reference for each label
seriesRefs(b, off) ==
  LET l == Uvarint(b, off)
      k == Uvarint(b, off + l[2])
  IN  labelRefsFrom(b, off + l[2] + k[2], 2 * k[1])

\* the symbol references of the series records are offsets of symbols
seriesRefsInSymbols ==
  \A r \in DOMAIN iw.series :
    iw.series[r].offset # 0
      => seriesRefs(ir.b, iw.series[r].offset) \subseteq symbolOffsets(ir.b, ir.toc.symbols)

\* the symbol references of the label indexes are offsets of symbols
labelIndexRefsInSymbols ==
  \A i \in DOMAIN iw.labelIndexes :
    \A j \in DOMAIN labelIndexRefs(ir.b, iw.labelIndexes[i].offset) :
      labelIndexRefs(ir.b, iw.labelIndexes[i].offset)[j] \in symbolOffsets(ir.b, ir.toc.symbols)

\* C25: every symbol reference written into the index, in the series records and in the
\* label indexes, is the offset of a symbol of the symbols section, whatever names and
\* values were passed to WriteLabelIndex and whatever series were added.
C25_SymbolRefsInSection ==
  ir.open => (seriesRefsInSymbols /\ labelIndexRefsInSymbols)

\* tuple a comes before tuple b in the lexicographic order of their strings
tupleBefore(a, b) ==
  \E i \in DOMAIN a :
    /\ \A j \in 1..(i - 1) : a[j] = b[j]
    /\ strCompare(a[i], b[i], 1) < 0

RECURSIVE tuplesInOrder(_, _)
\* the tuples ts[i], i in I, in lexicographic order
tuplesInOrder(ts, I) ==
  IF I = {} THEN << >>
  ELSE LET m == CHOOSE m \in I : \A x \in I : ~tupleBefore(ts[x], ts[m])
       IN  << ts[m] >> \o tuplesInOrder(ts, I \ {m})

\* the n tuples of k strings of the flattened values, in lexicographic order
sortedTuples(values, k) ==
  tuplesInOrder([i \in 1..(Len(values) \div k) |-> SubSeq(values, (i - 1) * k + 1, i * k)],
                1..(Len(values) \div k))

\* the label index written for the names that LabelValues was asked for
writtenFor(names) ==
  CHOOSE x \in LabelIndexInputs : x.names = names /\ Len(x.values) % Len(x.names) = 0

\* the tuples that LabelValues returned are those of x: n of them, At(i) the i-th in
\* lexicographic order, and At outside of them an invalid size error
tuplesOf(x) ==
  LET n == Len(x.values) \div Len(x.names)
  IN  /\ tuplesLen(ires) = n
      /\ \A i \in 0..(n - 1) :
           tuplesAt(ir.b, ires, i) = [s |-> sortedTuples(x.values, Len(x.names))[i + 1], err |-> "nil"]
      /\ \A i \in {-1, n, n + 1} : tuplesAt(ir.b, ires, i).err = "invalid size"

\* C26: for names of length k >= 1 and n*k flattened values, after WriteLabelIndex and Close,
\* LabelValues(names) has Len() = n, At(i) returns the k strings of the i-th of the n tuples
\* in lexicographic order, and At(i) for i outside [0, n) fails with the invalid size error.
\* The values are names or values of series added in the Populate stage.
C26_LabelValuesTuples ==
  (/\ iop = "LabelValues"
   /\ ires.found
   /\ allPopulated
   /\ {V1, V2} \subseteq addedSymbols)
    => (ires.err = "nil" /\ tuplesOf(writtenFor(ires.key)))

\* the chunk metas that Series returns for the chunks: Ref, MinTime and MaxTime of each
chunkMetas(chunks) ==
  [i \in DOMAIN chunks |->
     [Ref |-> chunks[i].Ref, MinTime |-> chunks[i].MinTime, MaxTime |-> chunks[i].MaxTime]]

\* Series of the reader at the offset of the series s of the writer returns its labels
\* and its chunk metas
readsBack(s) ==
  \E res \in { SeriesR(ir, s.offset) } :
    /\ res.err = "nil"
    /\ res.labels = s.labels
    /\ res.chunks = chunkMetas(s.chunks)

\* C27: for every series added with labels L and chunks C, Series of the reader of the
\* closed index at the offset of the series returns the labels L in order and one chunk
\* meta for each chunk of C, in order, with its Ref, MinTime and MaxTime.
C27_SeriesRoundTrip ==
  ir.open => \A r \in DOMAIN iw.series : readsBack(iw.series[r])

\* the reader has no label index, respectively no postings list, under the key it was asked for
noLabelIndex == join(ires.key, 1) \notin DOMAIN ir.labels
noPostingsList == join(ires.key, 1) \notin DOMAIN ir.postings

FourGiB == << 65536, 0 >>

\* C29: an index write that would advance the position past 4 GiB returns the file too
\* large error before the boundary byte is handed to the file writer: the bytes handed to
\* it never exceed 4 GiB, and a write that ends beyond the limit returns the error.
C29_NoByteBeyondLimit ==
  iop = "write" =>
    /\ ~posGreater(iw.pos, FourGiB)
    /\ posGreater(iw.pos, MaxUint32) => iw.err # "nil"

\* the first four bytes of the file are the magic number and the fifth is format version 1
validHeader(b) == Len(b) >= 5 /\ SubSeq(b, 1, 5) = indexMeta

\* C30: opening an index file whose first four bytes are not the magic number 0xBAAAD700,
\* or whose format version byte is not 1, fails with an error and returns no reader.
C30_HeaderVerifiedOnOpen ==
  [][\A d \in HeaderDamages :
       (OpenDamaged(d) /\ ~validHeader([iw.f EXCEPT ![d.at] = d.byte]))
         => (~ir'.open /\ ir'.err # "nil")]_vars
(***************************************************************************)
(* Truncate and the write tail; errors of the scan and of the replay.      *)
(***************************************************************************)

\* C34: Truncate never removes or replaces the segment that is the current write tail,
\* and every entry accepted by a Log* call after Truncate returned is delivered by a
\* replay after Close and reopen.
C34_TruncateSparesTail ==
  [][ /\ (op' = "Truncate" /\ files # << >> /\ files[Len(files)].name \in DOMAIN dir)
        => /\ files[Len(files)].name \in DOMAIN dir'
           /\ dir'[files[Len(files)].name] = dir[files[Len(files)].name]
      /\ (op' = "Read" /\ trunc.done)
        => \A k \in (trunc.n + 1)..Len(logged) :
             \E i \in 1..Len(delivered') : delivered'[i] = Kept(logged[k], mint') ]_vars

\* the error wr.Err() holds when the loop of Truncate(m, keep) over the candidates of
\* the writer s has ended
scanErr(s, m, keep) ==
  IF candidates(s.files, m, 1) = << >> THEN "nil"
  ELSE WRLoop([wr   |-> newWALReader(s.dir, s.inodes, s.files, candidates(s.files, m, 1), 0),
               keep |-> keep, c |-> 1, out |-> metab, err |-> "nil", done |-> FALSE]).wr.err

\* C36: when the scan of the candidate segments fails during Truncate (a candidate's
\* handle is closed, a read returns an error), Truncate returns an error, replaces no
\* segment and removes none.
C36_ScanErrorStopsTruncate ==
  [][ (op' = "Truncate" /\ scanErr(W, trunc'.mint, trunc'.keep) # "nil")
        => (lastErr' # "nil" /\ dir' = dir) ]_vars

badHeader(c) ==
  \/ Len(c) < 8
  \/ SubSeq(c, 1, 4) # << 67, 175, 0, 239 >>
  \/ c[5] # 1

\* C31: OpenSegmentWAL returns an error and no WAL when a segment of the directory is
\* shorter than 8 bytes, starts with another magic than 0x43AF00EF or has another format
\* byte than 1; every segment that a rotation created starts with the header
\* 0x43 0xAF 0x00 0xEF 0x01 0x00 0x00 0x00.
C31_HeaderChecked ==
  [][ /\ (op' = "Open" /\ \E n \in DOMAIN dir : badHeader(inodes[dir[n]]))
        => (lastErr' # "nil" /\ phase' = "closed" /\ files' = << >>)
      /\ op' \in {"LogSeries", "LogSamples", "LogDeletes"}
        => \A n \in DOMAIN dir' \ DOMAIN dir :
             SubSeq(inodes'[dir'[n]], 1, 8) = << 67, 175, 0, 239, 1, 0, 0, 0 >> ]_vars

\* an open that failed on the format byte of one of two segments
C31_Witness ==
  /\ op = "Open" /\ lastErr # "nil" /\ phase = "closed"
  /\ damage.kind = "hformat" /\ Cardinality(DOMAIN dir) >= 2

\* C32: when the process stops at any step of a rotation, reopening the directory
\* succeeds and the replay delivers every entry synced before the stop.
C32_StopInRotation ==
  (damage.kind \in StopKinds /\ ~damage.healed)
    => /\ op = "Open" => lastErr = "nil"
       /\ op = "Read" => (lastErr = "nil" /\ delivered = Expected(logged, mint))

(***************************************************************************)
(* Log* calls side by side.                                                *)
(***************************************************************************)

\* the segment of w.files with the name n holds a logged sample with T >= m
holdsSample(n, m) ==
  \E k \in DOMAIN logged :
    /\ logged[k].et = "samples" /\ layout[k].name = n
    /\ \E j \in DOMAIN logged[k].recs : logged[k].recs[j].T >= m

\* C33: under any interleaving of LogSamples calls (with LogSeries and LogDeletes in
\* between) the maxt of every segment is at least the T of every sample appended to
\* it, so Truncate(mint) has no candidate that holds a sample with T >= mint.
C33_MaxtCoversSamples ==
  \A i \in DOMAIN files :
    /\ ~holdsSample(files[i].name, files[i].maxt + 1)
    /\ \A m \in 0..4 :
         (\E j \in DOMAIN candidates(files, m, 1) : candidates(files, m, 1)[j] = i)
           => ~holdsSample(files[i].name, m)

\* C37: the Sync of a Log* call and of the flusher only ever fdatasyncs an open file:
\* the tail it took under the mutex is not closed by a cut before its fdatasync runs.
C37_SyncOnOpenTail ==
  /\ (run.pc = "Fdatasync" /\ run.tail # 0) => openFile(run.tail)
  /\ \A g \in Gs : (lgs.g[g].pc = "Fdatasync" /\ lgs.g[g].tail # 0) => openFile(lgs.g[g].tail)

\* C39: no fdatasync of a segment runs while the writer mutex is held: whatever is made
\* durable is made durable by the fdatasync step of a Sync, after its unlock.
C39_FdatasyncOutsideMutex ==
  [][ synced' # synced
        => \/ (run.pc = "Fdatasync" /\ run'.pc # "Fdatasync")
           \/ \E g \in Gs : lgs.g[g].pc = "Fdatasync" /\ lgs'.g[g].pc # "Fdatasync" ]_vars

\* the bytes of segment i of w.files, those still in the write buffer included
segmentBytes(i) ==
  IF i = Len(files) /\ cur # << >>
    THEN WriteAt(inodes[files[i].ino], files[i].pos, cur[1])
    ELSE inodes[files[i].ino]

RECURSIVE framesEnd(_, _)
\* 8 plus the frame sizes of the first k logged entries that went to segment n
framesEnd(n, k) ==
  IF k = 0 THEN 8
  ELSE framesEnd(n, k - 1) + (IF layout[k].name = n THEN layout[k].sz ELSE 0)

\* C38: under any interleaving of LogSeries, LogSamples and LogDeletes calls the bytes
\* of every segment behind its header are whole frames one after the other (header,
\* payload and the CRC over them contiguous), and w.curN is 8 plus the frame sizes
\* written to the tail.
C38_WholeFrames ==
  (\A g \in Gs : lgs.g[g].pc # "sum")
    => \A i \in DOMAIN files :
         /\ \A k \in DOMAIN layout :
              layout[k].name = files[i].name
                => /\ layout[k].off = framesEnd(files[i].name, k - 1)
                   /\ entryAt(segmentBytes(i), layout[k].off, layout[k].sz,
                              typeNamed(logged[k]))
         /\ IF i = Len(files)
              THEN /\ curN = framesEnd(files[i].name, Len(layout))
                   /\ files[i].pos + Len(cur[1]) = curN
              ELSE Len(inodes[files[i].ino]) = framesEnd(files[i].name, Len(layout))

\* the calls of two goroutines have put their entries into one segment, and two others
\* into two segments
C38_Witness ==
  /\ \A g \in Gs : lgs.g[g].pc = "idle" /\ lgs.g[g].call # NoCall
  /\ Len(logged) = 2 /\ layout[1].name = layout[2].name
  /\ logged[1].et # logged[2].et

\* C40: with a flush interval > 0 a failed background sync stops neither the flusher
\* nor the writer: the flusher leaves w.run only on the stop signal and is back at its
\* select after the failure, it attempts a sync again on a later tick as long as there is
\* no stop signal, a Log* call after the failure is accepted, and the bytes that accepted
\* entries left in the buffer get flushed to their segment (by a later tick or by Close).
C40_FlusherSurvivesFailure ==
  /\ [](run.pc = "exited" => stopc)
  /\ [][(run.pc = "Fdatasync" /\ run'.pc # "Fdatasync") => run'.pc = "select"]_vars
  /\ (run.failed ~> (run.pc = "Sync" \/ stopc))
  /\ [][(run.failed /\ LogReturns)
          => (lastErr' = "nil" /\ Len(logged') = Len(logged) + 1)]_vars
  /\ ((run.failed /\ cur # << >> /\ cur # << <<>> >>)
        ~> (placed /\ (cur = << >> \/ cur = << <<>> >>)))

\* the flusher's first sync failed (no segment yet), an entry was logged after it and a
\* later tick has synced it
C40_Witness ==
  /\ run.failed /\ run.err = "nil" /\ op = "Fdatasync"
  /\ Cardinality(DOMAIN dir) = 1 /\ Len(logged) >= 1
  /\ cur = << <<>> >> /\ placed
  /\ dir[layout[1].name] \in DOMAIN synced
WALNext ==
  \/ OpenSegmentWAL
  \/ \E m \in Mints : ReaderRead(m)
  \/ \E b \in SeriesBatches : LogSeries(b)
  \/ \E b \in SampleBatches : LogSamples(b)
  \/ \E b \in StoneBatches : LogDeletes(b)
  \/ Tick
  \/ Close
  \/ \E kind \in TornKinds : TornTail(kind)
  \/ \E k \in 1..Len(logged), kind \in CorruptKinds : Corrupt(k, kind)

TruncateNext ==
  \/ OpenSegmentWAL
  \/ \E m \in Mints : ReaderRead(m)
  \/ \E b \in SeriesBatches : LogSeries(b)
  \/ \E b \in SampleBatches : LogSamples(b)
  \/ \E b \in StoneBatches : LogDeletes(b)
  \/ Tick
  \/ Close
  \/ \E m \in TruncateMints, keep \in Keeps : Truncate(m, keep)

Init == WALInit /\ IndexInit /\ ConcInit
Next == WALNext
Spec == Init /\ [][Next]_vars
SpecTruncate == Init /\ [][TruncateNext]_vars
IndexSpecInit == Init /\ flushInterval = 0
SpecIndex == IndexSpecInit /\ [][IndexNext]_vars
SpecWriter == IndexSpecInit /\ [][WriterNext]_vars
SpecOpen == IndexSpecInit /\ [][OpenNext]_vars
\* indexWriter.write on writers close to the size limit
WriteSpecInit == WALInit /\ ConcInit /\ WriteInit /\ flushInterval = 0
SpecWrite == WriteSpecInit /\ [][WriteNext]_vars
\* the goroutines of one WAL with a flush interval > 0
CloseInit == Init /\ flushInterval > 0
SpecClose == CloseInit /\ [][CloseNext]_vars
SpecCloseLive == SpecClose /\ CloseFairness
SpecFlushLive == SpecClose /\ FlushFairness
SpecRace == Init /\ [][RaceNext]_vars
SpecStop == Init /\ [][StopNext]_vars
SpecWriters == Init /\ [][WritersNext]_vars
SpecReader == IndexSpecInit /\ [][ReaderSpecNext]_vars
====
